---- MODULE Spec2Model ----
(***************************************************************************)
(* Reduction engine of the surf recap service: daily summaries built from  *)
(* hourly marine series (app/api/overview/route.ts and the snapshot route).*)
(*                                                                         *)
(* Units.  Sea-level heights are integers in 1e-4 m, so that toFixed(3) is *)
(* a real rounding (to a multiple of 10).  Bearings are integers in 1e-1   *)
(* degree, so that Math.round is a real rounding.  A timestamp             *)
(* "YYYY-MM-DDTHH:00" is the record [day, hour]: the text before the "T"   *)
(* is the day, the text after it the hour.                                 *)
(***************************************************************************)
EXTENDS Integers, Sequences, FiniteSets, TLC

VARIABLES
    pc,        \* which operation produced the current outputs ("input" = none yet)
    date,      \* the target calendar date of the call
    hourly,    \* the hourly bundle handed to the builder
    tide,      \* result of tideEventsForDate / tideEventsForDay
    daily,     \* result of buildDailyFromHourly
    snapshot,  \* the persisted snapshot handed to mergeSnapshotAndBuilt
    built,     \* the freshly-built summary handed to mergeSnapshotAndBuilt
    merged,    \* result of mergeSnapshotAndBuilt
    degs,      \* the bearings handed to mostCommonDirection
    dir,       \* result of mostCommonDirection
    nums,      \* the array handed to median
    med,       \* result of median
    marine,    \* the marine provider's answer to a POST handler
    forecast,  \* the forecast (wind) provider's answer to a POST handler
    response,  \* what the POST handler answers
    actual,    \* result of buildActualFromSnapshot
    given,     \* the hourly bundle as the caller first handed it over
    summaries, \* the summaries built from that bundle so far, by date
    aggStore,  \* feedback: the stored aggregate of one date and location
    userStore, \* feedback: the stored record of each user for it
    posts,     \* feedback: what each POST in flight read with mget
    postCount, \* feedback: the POSTs each user has had accepted
    queue,     \* seed script: the shared job queue
    workers,   \* seed script: where each worker stands
    results,   \* seed script: the ok and fail counters
    sent       \* seed script: the snapshot POSTs sent so far, by job

\* the state of the operations that take no part in the reduction of one
\* hourly bundle
frameVars == <<actual, given, summaries>>
feedbackVars == <<aggStore, userStore, posts, postCount>>
seedVars == <<queue, workers, results, sent>>
others == <<frameVars, feedbackVars, seedVars>>

\* the arguments and results of the reduction of one hourly bundle
reductionVars == <<pc, date, hourly, tide, daily, snapshot, built, merged, degs, dir,
                   nums, med, marine, forecast>>

vars == <<pc, date, hourly, tide, daily, snapshot, built, merged, degs, dir,
          nums, med, marine, forecast, response, others>>

---------------------------------------------------------------------------
(* JavaScript values *)

\* null / undefined (the code tests both with `== null`)
Null == [k |-> "null", v |-> 0]
\* a finite number
Num(n) == [k |-> "num", v |-> n]
\* the number NaN
NaN == [k |-> "nan", v |-> 0]
\* the numbers Infinity (sign 1) and -Infinity (sign -1); JSON.parse yields
\* them for literals beyond the double range, such as 1e999
Inf(sign) == [k |-> "inf", v |-> sign]
\* a string that is not a numeric literal, such as "n/a": Number(s) is NaN
Str == [k |-> "str", v |-> 0]

\* !isNaN(Number(v)) for a non-null v: true of every number but NaN
IsNumeric(x) == x.k \in {"num", "inf"}

\* x == null
IsNull(x) == x.k = "null"

\* a ?? b
Coalesce(a, b) == IF IsNull(a) THEN b ELSE a

\* an array value; a missing or non-array value is Null
Arr(s) == [k |-> "arr", items |-> s]

\* Array.isArray(x)
IsArray(x) == x.k = "arr"

\* arr[i] with the code's 0-based i written 1-based: undefined past the end
At(s, i) == IF i \in 1..Len(s) THEN s[i] ELSE Null

\* the timestamp text date + "T" + hour
Stamp(d, h) == [k |-> "time", day |-> d, hour |-> h]

\* t.startsWith(date + "T")
StartsWith(t, d) == t.day = d

\* the date text of a summary, and the empty string
DateStr(d) == [k |-> "date", v |-> d]
EmptyStr == [k |-> "empty", v |-> 0]

\* a tide event {time, height}
Evt(t, h) == [time |-> t, height |-> h]

---------------------------------------------------------------------------
(* NumericSeries: app/api/overview/route.ts *)

\* numArr: not an array -> []; null and entries whose Number() is NaN ->
\* null; every other entry, the infinities included, is kept
numArr(arr) ==
    IF ~IsArray(arr) THEN <<>>
    ELSE [i \in 1..Len(arr.items) |->
            IF IsNumeric(arr.items[i]) THEN arr.items[i] ELSE Null]

\* Array.prototype.sort is stable: e goes after every element whose key is
\* not greater than its own
RECURSIVE InsertByKey(_, _, _)
InsertByKey(s, e, j) ==
    IF j > Len(s) THEN Append(s, e)
    ELSE IF s[j].key > e.key
         THEN SubSeq(s, 1, j - 1) \o <<e>> \o SubSeq(s, j, Len(s))
         ELSE InsertByKey(s, e, j + 1)

\* stable ascending sort of a sequence of [key, item] records
RECURSIVE SortByKey(_)
SortByKey(s) ==
    IF s = <<>> THEN <<>>
    ELSE InsertByKey(SortByKey(SubSeq(s, 1, Len(s) - 1)), s[Len(s)], 1)

\* the items of a sorted sequence of [key, item] records
Items(s) == [i \in 1..Len(s) |-> s[i].item]

\* x.toFixed(3) read back as a number: the nearest multiple of 1e-3, which is
\* 10 units; of two equally near ones toFixed takes the larger magnitude
fix(x) ==
    IF x >= 0 THEN ((x + 5) \div 10) * 10
    ELSE -((((-x) + 5) \div 10) * 10)

---------------------------------------------------------------------------
(* TideExtremaDetector: app/api/overview/route.ts *)

\* a.time.localeCompare(b.time) orders the fixed-width timestamps by day, then
\* by hour: the sort key of a timestamp
TimeKey(t) == t.day * 100 + t.hour

\* faulty variant: the first event in time instead of the highest
ReduceFirst(s, i, p) == p

\* highs.reduce((p, c) => (c.height > p.height ? c : p), highs[0])
RECURSIVE ReduceHighest(_, _, _)
ReduceHighest(s, i, p) ==
    IF i > Len(s) THEN p
    ELSE ReduceHighest(s, i + 1, IF s[i].height > p.height THEN s[i] ELSE p)

\* lows.reduce((p, c) => (c.height < p.height ? c : p), lows[0])
RECURSIVE ReduceLowest(_, _, _)
ReduceLowest(s, i, p) ==
    IF i > Len(s) THEN p
    ELSE ReduceLowest(s, i + 1, IF s[i].height < p.height THEN s[i] ELSE p)

\* highs.map((e) => ({ time: e.time, height: fix(e.height) }))
FixEvents(s) == [i \in 1..Len(s) |-> Evt(s[i].time, fix(s[i].height))]

buildTideSummary(highs, lows) ==
    LET hi == IF Len(highs) > 0 THEN <<ReduceHighest(highs, 1, highs[1])>> ELSE <<>>
        lo == IF Len(lows) > 0 THEN <<ReduceLowest(lows, 1, lows[1])>> ELSE <<>>
    IN  [highs        |-> FixEvents(highs),
         lows         |-> FixEvents(lows),
         tideHigh     |-> IF hi # <<>> THEN Num(fix(hi[1].height)) ELSE Null,
         tideHighTime |-> IF hi # <<>> THEN hi[1].time ELSE Null,
         tideLow      |-> IF lo # <<>> THEN Num(fix(lo[1].height)) ELSE Null,
         tideLowTime  |-> IF lo # <<>> THEN lo[1].time ELSE Null]

\* faulty variant: a turning point needs both neighbours on `d` (the series clipped
\* to the day)
RECURSIVE ScanTurningPointsInDay(_, _, _, _, _)
ScanTurningPointsInDay(ts, hs, d, i, wantHigh) ==
    IF i > Len(ts) - 1 THEN <<>>
    ELSE LET t  == ts[i]
             h0 == At(hs, i - 1)
             h1 == At(hs, i)
             h2 == At(hs, i + 1)
             hit == /\ StartsWith(t, d)
                    /\ StartsWith(ts[i - 1], d) /\ StartsWith(ts[i + 1], d)
                    /\ ~(IsNull(h0) \/ IsNull(h1) \/ IsNull(h2))
                    /\ IF wantHigh THEN h1.v > h0.v /\ h1.v > h2.v
                                   ELSE h1.v < h0.v /\ h1.v < h2.v
         IN  (IF hit THEN <<Evt(t, h1.v)>> ELSE <<>>)
                 \o ScanTurningPointsInDay(ts, hs, d, i + 1, wantHigh)

\* the first loop of tideEventsForDate: the turning points on `d`, i running
\* over the interior indices (the code's 1 .. length-2 is 2 .. Len-1 here)
RECURSIVE ScanTurningPoints(_, _, _, _, _)
ScanTurningPoints(ts, hs, d, i, wantHigh) ==
    IF i > Len(ts) - 1 THEN <<>>
    ELSE LET t  == ts[i]
             h0 == At(hs, i - 1)
             h1 == At(hs, i)
             h2 == At(hs, i + 1)
             hit == /\ StartsWith(t, d)
                    /\ ~(IsNull(h0) \/ IsNull(h1) \/ IsNull(h2))
                    /\ IF wantHigh THEN h1.v > h0.v /\ h1.v > h2.v
                                   ELSE h1.v < h0.v /\ h1.v < h2.v
         IN  (IF hit THEN <<Evt(t, h1.v)>> ELSE <<>>)
                 \o ScanTurningPoints(ts, hs, d, i + 1, wantHigh)

\* faulty variant: >= and <= keep the last of equal samples instead of the first
RECURSIVE ScanDayExtremeLast(_, _, _, _, _, _)
ScanDayExtremeLast(ts, hs, d, i, wantHigh, cur) ==
    IF i > Len(ts) THEN cur
    ELSE LET h == At(hs, i)
             take == /\ StartsWith(ts[i], d)
                     /\ ~IsNull(h)
                     /\ \/ cur = <<>>
                        \/ IF wantHigh THEN h.v >= cur[1].height
                                       ELSE h.v <= cur[1].height
         IN  ScanDayExtremeLast(ts, hs, d, i + 1, wantHigh,
                                IF take THEN <<Evt(ts[i], h.v)>> ELSE cur)

\* the fallback loop: the running maxEvt (wantHigh) or minEvt, as a sequence
\* of no or one event
RECURSIVE ScanDayExtreme(_, _, _, _, _, _)
ScanDayExtreme(ts, hs, d, i, wantHigh, cur) ==
    IF i > Len(ts) THEN cur
    ELSE LET h == At(hs, i)
             take == /\ StartsWith(ts[i], d)
                     /\ ~IsNull(h)
                     /\ \/ cur = <<>>
                        \/ IF wantHigh THEN h.v > cur[1].height
                                       ELSE h.v < cur[1].height
         IN  ScanDayExtreme(ts, hs, d, i + 1, wantHigh,
                            IF take THEN <<Evt(ts[i], h.v)>> ELSE cur)

\* faulty variant: the first two highs in time, without ranking by height
topHighsFirstTwo(highs) ==
    SubSeq(highs, 1, IF Len(highs) < 2 THEN Len(highs) ELSE 2)

\* highs.slice().sort((a, b) => b.height - a.height).slice(0, 2)
\*      .sort((a, b) => a.time.localeCompare(b.time))
topHighs(highs) ==
    LET byHeight == Items(SortByKey([i \in 1..Len(highs) |->
                        [key |-> -highs[i].height, item |-> highs[i]]]))
        two == SubSeq(byHeight, 1, IF Len(byHeight) < 2 THEN Len(byHeight) ELSE 2)
    IN  Items(SortByKey([i \in 1..Len(two) |->
                        [key |-> TimeKey(two[i].time), item |-> two[i]]]))

\* faulty variant: the two lowest lows left in height order, not re-sorted by time
topLowsByHeight(lows) ==
    LET byHeight == Items(SortByKey([i \in 1..Len(lows) |->
                        [key |-> lows[i].height, item |-> lows[i]]]))
    IN  SubSeq(byHeight, 1, IF Len(byHeight) < 2 THEN Len(byHeight) ELSE 2)

\* lows.slice().sort((a, b) => a.height - b.height).slice(0, 2)
\*     .sort((a, b) => a.time.localeCompare(b.time))
topLows(lows) ==
    LET byHeight == Items(SortByKey([i \in 1..Len(lows) |->
                        [key |-> lows[i].height, item |-> lows[i]]]))
        two == SubSeq(byHeight, 1, IF Len(byHeight) < 2 THEN Len(byHeight) ELSE 2)
    IN  Items(SortByKey([i \in 1..Len(two) |->
                        [key |-> TimeKey(two[i].time), item |-> two[i]]]))

\* faulty variant: the fallback also replaces a single candidate
useFallbackFewerThanTwo(highs, lows) == Len(highs) < 2 \/ Len(lows) < 2

\* whether tideEventsForDate takes its fallback branch
useFallback(highs, lows) == Len(highs) = 0 \/ Len(lows) = 0

tideEventsForDate(ts, hs, d) ==
    LET highs == ScanTurningPoints(ts, hs, d, 2, TRUE)
        lows  == ScanTurningPoints(ts, hs, d, 2, FALSE)
    IN  IF useFallback(highs, lows)
        THEN buildTideSummary(ScanDayExtreme(ts, hs, d, 1, TRUE, <<>>),
                              ScanDayExtreme(ts, hs, d, 1, FALSE, <<>>))
        ELSE buildTideSummary(topHighs(highs), topLows(lows))

---------------------------------------------------------------------------
(* The snapshot route's day-only detector: tideEventsForDay *)

\* the indices of the day's usable samples, ascending
RECURSIVE dayIdxs(_, _, _, _)
dayIdxs(ts, hs, d, i) ==
    IF i > Len(ts) \/ i > Len(hs) THEN <<>>
    ELSE (IF StartsWith(ts[i], d) /\ hs[i].k = "num" THEN <<i>> ELSE <<>>)
             \o dayIdxs(ts, hs, d, i + 1)

\* the turning points among the day's usable samples (the code's k from 1 to
\* idxs.length-2 is 2 .. Len-1 here)
RECURSIVE dayCandidates(_, _, _, _, _)
dayCandidates(ts, hs, idxs, k, wantHigh) ==
    IF k > Len(idxs) - 1 THEN <<>>
    ELSE LET h0 == hs[idxs[k - 1]].v
             h1 == hs[idxs[k]].v
             h2 == hs[idxs[k + 1]].v
             hit == IF wantHigh THEN h1 > h0 /\ h1 > h2 ELSE h1 < h0 /\ h1 < h2
         IN  (IF hit THEN <<Evt(ts[idxs[k]], h1)>> ELSE <<>>)
                 \o dayCandidates(ts, hs, idxs, k + 1, wantHigh)

\* the fallback loop over idxs: the running hi (wantHigh) or lo
RECURSIVE dayExtreme(_, _, _, _, _, _)
dayExtreme(ts, hs, idxs, k, wantHigh, cur) ==
    IF k > Len(idxs) THEN cur
    ELSE LET h == hs[idxs[k]].v
             take == \/ cur = <<>>
                     \/ IF wantHigh THEN h > cur[1].height ELSE h < cur[1].height
         IN  dayExtreme(ts, hs, idxs, k + 1, wantHigh,
                        IF take THEN <<Evt(ts[idxs[k]], h)>> ELSE cur)

\* the bundle returned when idxs.length < 3
emptyBundle ==
    [highs |-> <<>>, lows |-> <<>>, tideHigh |-> Null, tideHighTime |-> Null,
     tideLow |-> Null, tideLowTime |-> Null]

\* faulty variant: the threshold off by one
tooFewSamplesTwo(idxs) == Len(idxs) < 2

\* if (idxs.length < 3): too few usable samples on the day
tooFewSamples(idxs) == Len(idxs) < 3

tideEventsForDay(ts, hs, d) ==
    LET idxs == dayIdxs(ts, hs, d, 1)
        candidatesHigh == dayCandidates(ts, hs, idxs, 2, TRUE)
        candidatesLow  == dayCandidates(ts, hs, idxs, 2, FALSE)
        hi == dayExtreme(ts, hs, idxs, 1, TRUE, <<>>)
        lo == dayExtreme(ts, hs, idxs, 1, FALSE, <<>>)
    IN  IF tooFewSamples(idxs) THEN emptyBundle
        ELSE IF Len(candidatesHigh) = 0 \/ Len(candidatesLow) = 0
        THEN [highs        |-> hi,
              lows         |-> lo,
              tideHigh     |-> IF hi # <<>> THEN Num(fix(hi[1].height)) ELSE Null,
              tideHighTime |-> IF hi # <<>> THEN hi[1].time ELSE Null,
              tideLow      |-> IF lo # <<>> THEN Num(fix(lo[1].height)) ELSE Null,
              tideLowTime  |-> IF lo # <<>> THEN lo[1].time ELSE Null]
        ELSE buildTideSummary(topHighs(candidatesHigh), topLows(candidatesLow))

---------------------------------------------------------------------------
(* NumericSeries.median and DirectionBinner: app/api/overview/route.ts *)

\* values.slice().sort((a, b) => a - b) on numbers that are not NaN: the
\* difference of two equal infinities is NaN, which sort reads as 0, so the
\* stable sort keeps -Infinity first, then the finite numbers ascending, then
\* Infinity
sortAscending(values) ==
    LET finite == SelectSeq(values, LAMBDA x : x.k = "num")
    IN  SelectSeq(values, LAMBDA x : x.k = "inf" /\ x.v < 0)
        \o Items(SortByKey([i \in 1..Len(finite) |->
                    [key |-> finite[i].v, item |-> finite[i]]]))
        \o SelectSeq(values, LAMBDA x : x.k = "inf" /\ x.v > 0)

\* (a + b) / 2.  The mean of two finite numbers is exact because every
\* sample set of the model holds even numbers only.
meanOfTwo(a, b) ==
    IF a.k = "nan" \/ b.k = "nan" THEN NaN
    ELSE IF a.k = "num" /\ b.k = "num" THEN Num((a.v + b.v) \div 2)
    ELSE IF a.k = "inf" /\ b.k = "inf" /\ a.v # b.v THEN NaN
    ELSE IF a.k = "inf" THEN a
    ELSE b

\* faulty variant: an even-length array yields its upper middle element
medianUpperMiddle(values) ==
    IF Len(values) = 0 THEN Null
    ELSE LET v == sortAscending(values)
         IN  v[(Len(v) \div 2) + 1]

\* faulty variant: the array is sorted where it stands, without the copy
valuesSortedInPlace(values) == sortAscending(values)

\* the array median was given, after the call: values.slice() copies it and
\* sort reorders the copy
valuesAfterMedian(values) == values

\* median of an array of numbers
median(values) ==
    IF Len(values) = 0 THEN Null
    ELSE LET v == sortAscending(values)
             mid == Len(v) \div 2
         IN  IF Len(v) % 2 = 1 THEN v[mid + 1]
             ELSE meanOfTwo(v[mid], v[mid + 1])

\* median of app/api/snapshot/route.ts: null entries are filtered out and the
\* rest mapped through Number before the sort.  The result is the set of
\* values the call can return: with a NaN among the numbers the comparator
\* a - b is inconsistent and the sort order is implementation-defined
\* (ECMA-262 Array.prototype.sort), so the middle may be any entry.
snapshotMedian(values) ==
    LET v == SelectSeq(values, LAMBDA x : ~IsNull(x))
        mid == Len(v) \div 2
    IN  IF Len(values) = 0 \/ Len(v) = 0 THEN {Null}
        ELSE IF \A i \in 1..Len(v) : v[i].k # "nan" THEN {median(v)}
        ELSE IF Len(v) % 2 = 1 THEN {v[i] : i \in 1..Len(v)}
        ELSE {meanOfTwo(v[i], v[j]) : <<i, j>> \in {x \in (1..Len(v)) \X (1..Len(v)) : x[1] # x[2]}}

\* a % 360 on bearings in tenths of a degree: the sign of the dividend
jsRem360(a) == IF a >= 0 THEN a % 3600 ELSE -((-a) % 3600)

\* the .map of mostCommonDirection: a bearing (tenths of a degree) to whole
\* degrees in 0..360; Math.round rounds halves up
normalizeDeg(a) ==
    LET dd == IF jsRem360(a) < 0 THEN jsRem360(a) + 3600 ELSE jsRem360(a)
    IN  (dd + 5) \div 10

\* Math.round(d / 10) * 10 for whole degrees d >= 0
binOf(d) == ((d + 5) \div 10) * 10

\* faulty variant: the running count is never raised, so every key replaces
\* best and the last key visited is returned
RECURSIVE pickBestLastKey(_, _, _, _)
pickBestLastKey(bins, keys, best, bestCount) ==
    IF keys = {} THEN best
    ELSE LET k == CHOOSE x \in keys : \A y \in keys : x <= y
         IN  IF bins[k] > bestCount
             THEN pickBestLastKey(bins, keys \ {k}, Num(k), bestCount)
             ELSE pickBestLastKey(bins, keys \ {k}, best, bestCount)

\* faulty variant: an equal count replaces best too, so the largest of the
\* tied keys is returned
RECURSIVE pickBestLatestTie(_, _, _, _)
pickBestLatestTie(bins, keys, best, bestCount) ==
    IF keys = {} THEN best
    ELSE LET k == CHOOSE x \in keys : \A y \in keys : x <= y
         IN  IF bins[k] >= bestCount
             THEN pickBestLatestTie(bins, keys \ {k}, Num(k), bins[k])
             ELSE pickBestLatestTie(bins, keys \ {k}, best, bestCount)

\* the for loop over Object.keys(bins): integer keys are visited in ascending
\* order, and only a strictly greater count replaces best
RECURSIVE pickBest(_, _, _, _)
pickBest(bins, keys, best, bestCount) ==
    IF keys = {} THEN best
    ELSE LET k == CHOOSE x \in keys : \A y \in keys : x <= y
         IN  IF bins[k] > bestCount
             THEN pickBest(bins, keys \ {k}, Num(k), bins[k])
             ELSE pickBest(bins, keys \ {k}, best, bestCount)

\* An infinite bearing passes the filter; Infinity % 360 is NaN, so it is
\* counted under the key "NaN", which Object.keys lists after the integer
\* keys, and bins[+"NaN"] reads that count back.
mostCommonDirection(ds) ==
    LET kept  == SelectSeq(ds, IsNumeric)
        finite == SelectSeq(kept, LAMBDA x : x.k = "num")
        clean == [i \in 1..Len(finite) |-> normalizeDeg(finite[i].v)]
        keys  == {binOf(clean[i]) : i \in 1..Len(clean)}
        bins  == [b \in keys |-> Cardinality({i \in 1..Len(clean) : binOf(clean[i]) = b})]
        nanCount == Len(kept) - Len(finite)
        best  == pickBest(bins, keys, Null, -1)
        bestCount == IF IsNull(best) THEN -1 ELSE bins[best.v]
    IN  IF Len(kept) = 0 THEN Null
        ELSE IF nanCount > 0 /\ nanCount > bestCount THEN NaN
        ELSE best

---------------------------------------------------------------------------
(* DailySummaryBuilder: buildDailyFromHourly *)

\* faulty variant: every timestamp is taken, whatever its date
RECURSIVE dateIdxsAnyDate(_, _, _)
dateIdxsAnyDate(ts, d, i) ==
    IF i > Len(ts) THEN <<>>
    ELSE <<i>> \o dateIdxsAnyDate(ts, d, i + 1)

\* the indices of the timestamps on `d`, ascending
RECURSIVE dateIdxs(_, _, _)
dateIdxs(ts, d, i) ==
    IF i > Len(ts) THEN <<>>
    ELSE (IF StartsWith(ts[i], d) THEN <<i>> ELSE <<>>) \o dateIdxs(ts, d, i + 1)

\* faulty variant: the first entries of arr are taken, not those at idxs
sliceFromStart(idxs, arr) == [j \in 1..Len(idxs) |-> At(arr, j)]

\* faulty variant: an index beyond the end of arr reads the last entry of arr
sliceClamped(idxs, arr) ==
    [j \in 1..Len(idxs) |->
        IF Len(arr) = 0 THEN Null
        ELSE IF idxs[j] > Len(arr) THEN arr[Len(arr)] ELSE arr[idxs[j]]]

\* slice = idxs.map((i) => (i < arr.length ? arr[i] : null))
slice(idxs, arr) == [j \in 1..Len(idxs) |-> At(arr, idxs[j])]

\* clean = arr.filter((v) => v != null && !isNaN(Number(v)))
clean(arr) == SelectSeq(arr, IsNumeric)

\* faulty variant: the tier is kept only when its median height is truthy
swellTierByHeight(H, P, D) ==
    IF median(clean(H)) \notin {Null, NaN, Num(0)}
    THEN [k |-> "obj", height |-> median(clean(H)), period |-> median(clean(P)),
          direction |-> mostCommonDirection(D)]
    ELSE Null

\* one swell tier of buildDailyFromHourly
swellTier(H, P, D) ==
    IF Len(clean(H)) > 0 \/ Len(clean(P)) > 0 \/ Len(clean(D)) > 0
    THEN [k |-> "obj", height |-> median(clean(H)), period |-> median(clean(P)),
          direction |-> mostCommonDirection(D)]
    ELSE Null

buildDailyFromHourly(d, h) ==
    IF IsNull(h) \/ ~IsArray(h.time) THEN Null
    ELSE
    LET ts   == h.time.items
        idxs == dateIdxs(ts, d, 1)
        sl(ch) == slice(idxs, numArr(ch))
        tideR == tideEventsForDate(ts, numArr(h.sea_level_height_msl), d)
    IN  IF Len(idxs) = 0 THEN Null
        ELSE [k |-> "obj",
              date |-> DateStr(d),
              swell |-> [k |-> "obj",
                  primary   |-> swellTier(sl(h.swell_wave_height),
                                          sl(h.swell_wave_period),
                                          sl(h.swell_wave_direction)),
                  secondary |-> swellTier(sl(h.secondary_swell_wave_height),
                                          sl(h.secondary_swell_wave_period),
                                          sl(h.secondary_swell_wave_direction)),
                  tertiary  |-> swellTier(sl(h.tertiary_swell_wave_height),
                                          sl(h.tertiary_swell_wave_period),
                                          sl(h.tertiary_swell_wave_direction))],
              waveHeight |-> median(clean(sl(h.wave_height))),
              wind |-> [k |-> "obj",
                        speed |-> median(clean(sl(h.wind_speed_10m))),
                        direction |-> mostCommonDirection(sl(h.wind_direction_10m))],
              waterTemperature |-> median(clean(sl(h.sea_surface_temperature))),
              tideHigh |-> tideR.tideHigh,
              tideHighTime |-> tideR.tideHighTime,
              tideLow |-> tideR.tideLow,
              tideLowTime |-> tideR.tideLowTime,
              tides |-> [k |-> "obj", highs |-> Arr(tideR.highs), lows |-> Arr(tideR.lows)]]

---------------------------------------------------------------------------
(* SummaryReconciler: pickSummary and mergeSnapshotAndBuilt *)

\* faulty variant: the bundle is cut down to the stamps of the date where it
\* stands
hourlyCutToDate(d, h) ==
    IF IsNull(h) THEN h
    ELSE IF ~IsArray(h.time) THEN h
    ELSE [h EXCEPT !.time = Arr(SelectSeq(h.time.items, LAMBDA t : StartsWith(t, d)))]

\* the bundle buildDailyFromHourly was given, after the call: hourly.time is
\* only read (also by tideEventsForDate, which sorts copies of its own
\* lists), numArr maps every channel into a new array, slice and clean build
\* new arrays, and median sorts a copy
hourlyAfterBuild(d, h) == h

\* the walk of pickSummary along path[i..]
RECURSIVE walkPath(_, _, _)
walkPath(cur, path, i) ==
    IF i > Len(path) THEN cur
    ELSE IF IsNull(cur) THEN Null
    ELSE walkPath(cur[path[i]], path, i + 1)

\* pickSummary(snapshot, "a.b.c"), the path given as <<"a", "b", "c">>
pickSummary(snap, path) ==
    IF IsNull(snap) THEN Null
    ELSE IF IsNull(snap.summary) THEN Null
    ELSE walkPath(snap.summary, path, 1)

\* sp(which) of mergeSnapshotAndBuilt
sp(snap, blt, which) ==
    LET h == pickSummary(snap, <<"swell", which, "height">>)
        p == pickSummary(snap, <<"swell", which, "period">>)
        d == pickSummary(snap, <<"swell", which, "direction">>)
        any == ~IsNull(h) \/ ~IsNull(p) \/ ~IsNull(d)
    IN  IF any THEN [k |-> "obj", height |-> h, period |-> p, direction |-> d]
        ELSE IF IsNull(blt) THEN Null
        ELSE IF IsNull(blt.swell) THEN Null
        ELSE blt.swell[which]

\* whether the condition of tidesFromSnap holds: an array, even an empty one,
\* is truthy
tidesInSnapshot(snap) ==
    \/ ~IsNull(pickSummary(snap, <<"tides", "highs">>))
    \/ ~IsNull(pickSummary(snap, <<"tides", "lows">>))

\* (list ?? []).map((e) => ({ time: e.time, height: Number(e.height) }))
copyEvents(list) ==
    IF IsNull(list) THEN Arr(<<>>)
    ELSE Arr([i \in 1..Len(list.items) |-> Evt(list.items[i].time, list.items[i].height)])

tidesFromSnap(snap) ==
    IF tidesInSnapshot(snap)
    THEN [k |-> "obj",
          highs |-> copyEvents(snap.summary.tides.highs),
          lows  |-> copyEvents(snap.summary.tides.lows)]
    ELSE Null

\* faulty variant: the persisted value is taken only when it is truthy, so a
\* persisted 0 gives way to the built value
preferSnapshotTruthy(snap, path, bltValue) ==
    LET v == pickSummary(snap, path)
    IN  IF IsNull(v) \/ v = Num(0) \/ v = NaN THEN bltValue ELSE v

\* pickSummary(snapshot, path) ?? built?.[field] ?? null
preferSnapshot(snap, path, bltValue) == Coalesce(pickSummary(snap, path), bltValue)

mergeSnapshotAndBuilt(snap, blt) ==
    IF IsNull(blt) /\ IsNull(snap) THEN Null
    ELSE
    LET b(f) == IF IsNull(blt) THEN Null ELSE blt[f]
        bw(f) == IF IsNull(blt) THEN Null ELSE blt.wind[f]
    IN  [k |-> "obj",
         date |-> Coalesce(b("date"),
                           Coalesce(IF IsNull(snap) THEN Null ELSE snap.date, EmptyStr)),
         swell |-> [k |-> "obj",
                    primary   |-> sp(snap, blt, "primary"),
                    secondary |-> sp(snap, blt, "secondary"),
                    tertiary  |-> sp(snap, blt, "tertiary")],
         waveHeight |-> preferSnapshot(snap, <<"waveHeight">>, b("waveHeight")),
         wind |-> [k |-> "obj",
                   speed     |-> preferSnapshot(snap, <<"wind", "speed">>, bw("speed")),
                   direction |-> preferSnapshot(snap, <<"wind", "direction">>, bw("direction"))],
         waterTemperature |-> preferSnapshot(snap, <<"waterTemperature">>, b("waterTemperature")),
         tideHigh     |-> preferSnapshot(snap, <<"tideHigh">>, b("tideHigh")),
         tideHighTime |-> preferSnapshot(snap, <<"tideHighTime">>, b("tideHighTime")),
         tideLow      |-> preferSnapshot(snap, <<"tideLow">>, b("tideLow")),
         tideLowTime  |-> preferSnapshot(snap, <<"tideLowTime">>, b("tideLowTime")),
         tides |-> Coalesce(tidesFromSnap(snap),
                            Coalesce(b("tides"),
                                     [k |-> "obj", highs |-> Arr(<<>>), lows |-> Arr(<<>>)]))]

---------------------------------------------------------------------------
(* The POST handlers: app/api/snapshot/route.ts and app/api/overview/route.ts *)

\* the channels of an hourly bundle, time aside
Channels ==
    {"swell_wave_height", "swell_wave_period", "swell_wave_direction",
     "secondary_swell_wave_height", "secondary_swell_wave_period",
     "secondary_swell_wave_direction",
     "tertiary_swell_wave_height", "tertiary_swell_wave_period",
     "tertiary_swell_wave_direction",
     "wave_height", "wind_speed_10m", "wind_direction_10m",
     "sea_surface_temperature", "sea_level_height_msl"}

\* Number(v) of a non-null sample
toNumber(x) == IF x.k = "str" THEN NaN ELSE x

\* .map((v) => (v == null ? null : Number(v)))
mapNumber(arr) == [i \in 1..Len(arr) |-> IF IsNull(arr[i]) THEN Null ELSE toNumber(arr[i])]

\* a number as JSON.stringify writes it and JSON.parse reads it back: NaN
\* and the infinities become null
jsonNumber(x) == IF x.k \in {"nan", "inf"} THEN Null ELSE x

\* safeArr = Array.isArray(source?.[name]) ? source[name] : []
safeArr(source, name) ==
    IF IsNull(source) THEN <<>>
    ELSE IF name \in DOMAIN source /\ IsArray(source[name]) THEN source[name].items
    ELSE <<>>

\* an array of numbers as JSON.stringify writes it
jsonArray(arr) == Arr([i \in 1..Len(arr) |-> jsonNumber(arr[i])])

\* a value in a condition: null, NaN and 0 are falsy
Truthy(x) == x.k = "inf" \/ (x.k = "num" /\ x.v # 0)

\* a > b on numbers that are not NaN
Greater(a, b) ==
    IF a.k = "inf" THEN IF a.v > 0 THEN ~(b.k = "inf" /\ b.v > 0) ELSE FALSE
    ELSE IF b.k = "inf" THEN b.v < 0
    ELSE a.v > b.v

\* Number(x.toFixed(3)) of a number that is not NaN
fixNumber(x) == IF x.k = "inf" THEN x ELSE Num(fix(x.v))

\* the loop of findTideExtrema from index i: cur is <<>> or <<index>> of the
\* extreme so far, which starts at -Infinity (wantHigh) or Infinity
RECURSIVE ScanExtremum(_, _, _, _, _)
ScanExtremum(ts, hs, i, wantHigh, cur) ==
    IF i > Len(hs) \/ i > Len(ts) THEN cur
    ELSE IF ~IsNumeric(hs[i]) THEN ScanExtremum(ts, hs, i + 1, wantHigh, cur)
    ELSE LET start == IF wantHigh THEN Inf(-1) ELSE Inf(1)
             best  == IF cur = <<>> THEN start ELSE hs[cur[1]]
             beats == IF wantHigh THEN Greater(hs[i], best) ELSE Greater(best, hs[i])
         IN  ScanExtremum(ts, hs, i + 1, wantHigh, IF beats THEN <<i>> ELSE cur)

\* findTideExtrema of the snapshot route: the extremes of the whole series
findTideExtrema(ts, hs) ==
    LET hi == ScanExtremum(ts, hs, 1, TRUE, <<>>)
        lo == ScanExtremum(ts, hs, 1, FALSE, <<>>)
    IN  IF Len(ts) = 0 \/ Len(hs) = 0 \/ hi = <<>>
        THEN [tideHigh |-> Null, tideHighTime |-> Null,
              tideLow |-> IF Len(ts) = 0 \/ Len(hs) = 0 \/ lo = <<>> THEN Null
                          ELSE fixNumber(hs[lo[1]]),
              tideLowTime |-> IF Len(ts) = 0 \/ Len(hs) = 0 \/ lo = <<>> THEN Null
                              ELSE ts[lo[1]]]
        ELSE [tideHigh |-> fixNumber(hs[hi[1]]), tideHighTime |-> ts[hi[1]],
              tideLow |-> IF lo = <<>> THEN Null ELSE fixNumber(hs[lo[1]]),
              tideLowTime |-> IF lo = <<>> THEN Null ELSE ts[lo[1]]]

\* faulty variant: the tier is kept whenever any of its three values is set
snapshotTierAnyLeaf(height, period, direction) ==
    IF ~IsNull(height) \/ ~IsNull(period) \/ ~IsNull(direction)
    THEN [k |-> "obj", height |-> jsonNumber(height), period |-> jsonNumber(period),
          direction |-> jsonNumber(direction)]
    ELSE Null

\* secondaryHeight ? { height, period, direction } : null, as persisted
snapshotTier(height, period, direction) ==
    IF Truthy(height)
    THEN [k |-> "obj", height |-> jsonNumber(height), period |-> jsonNumber(period),
          direction |-> jsonNumber(direction)]
    ELSE Null

\* the object { time: [] }
emptyHourly == [f \in {"k", "time"} |-> IF f = "k" THEN "obj" ELSE Arr(<<>>)]

\* marine.hourly ?? { time: [] }
marineHourlyOf(m) == IF IsNull(m.hourly) THEN emptyHourly ELSE m.hourly

\* a channel of marineHourly; a field the object lacks reads undefined
channelOf(mh, name) == IF name \in DOMAIN mh THEN mh[name] ELSE Null

\* forecastHourly: forecast.hourly ?? null when the answer is ok, else null
forecastHourlyOf(f) == IF f.outcome = "ok" THEN f.hourly ELSE Null

\* the answers of the snapshot POST handler for the two provider answers:
\* the snapshot it persists and returns (hourly without wave_period and
\* wave_direction, which no summary field reads) with status 200, or an error
\* status.  A fetch that rejects makes Promise.all reject, which the catch
\* answers 500.
snapshotPost(m, f) ==
    IF m.outcome = "rejected" \/ f.outcome = "rejected" THEN {[status |-> 500]}
    ELSE IF m.outcome # "ok" THEN {[status |-> 502]}
    ELSE
    LET mh == marineHourlyOf(m)
        fh == forecastHourlyOf(f)
        times == IF IsArray(channelOf(mh, "time")) THEN mh.time.items
                 ELSE IF ~IsNull(fh) /\ IsArray(fh.time) THEN fh.time.items
                 ELSE <<>>
        ch(name) == mapNumber(safeArr(mh, name))
        windSpeedArr == mapNumber(safeArr(fh, "wind_speed_10m"))
        windDirArr == mapNumber(safeArr(fh, "wind_direction_10m"))
        windSpeeds == [i \in 1..Len(times) |-> At(windSpeedArr, i)]
        windDirs == [i \in 1..Len(times) |-> At(windDirArr, i)]
        nonNull(a) == SelectSeq(a, LAMBDA x : ~IsNull(x))
        tideX == findTideExtrema(times, ch("sea_level_height_msl"))
    IN  {[status |-> 200,
          hourly |-> [c \in Channels \cup {"k", "time"} |->
                        IF c = "k" THEN "obj"
                        ELSE IF c = "time" THEN Arr(times)
                        ELSE IF c = "wind_speed_10m" THEN jsonArray(windSpeeds)
                        ELSE IF c = "wind_direction_10m" THEN jsonArray(windDirs)
                        ELSE jsonArray(ch(c))],
          summary |-> [k |-> "obj",
            swell |-> [k |-> "obj",
                primary |-> [k |-> "obj", height |-> jsonNumber(pH), period |-> jsonNumber(pP),
                             direction |-> jsonNumber(mostCommonDirection(ch("swell_wave_direction")))],
                secondary |-> snapshotTier(sH, sP,
                                  mostCommonDirection(ch("secondary_swell_wave_direction"))),
                tertiary |-> snapshotTier(tH, tP,
                                  mostCommonDirection(ch("tertiary_swell_wave_direction")))],
            wind |-> [k |-> "obj", speed |-> jsonNumber(wS),
                      direction |-> jsonNumber(mostCommonDirection(windDirs))],
            waterTemperature |-> jsonNumber(wT),
            tideHigh |-> jsonNumber(tideX.tideHigh), tideHighTime |-> tideX.tideHighTime,
            tideLow |-> jsonNumber(tideX.tideLow), tideLowTime |-> tideX.tideLowTime]] :
         pH \in snapshotMedian(nonNull(ch("swell_wave_height"))),
         pP \in snapshotMedian(nonNull(ch("swell_wave_period"))),
         sH \in snapshotMedian(nonNull(ch("secondary_swell_wave_height"))),
         sP \in snapshotMedian(nonNull(ch("secondary_swell_wave_period"))),
         tH \in snapshotMedian(nonNull(ch("tertiary_swell_wave_height"))),
         tP \in snapshotMedian(nonNull(ch("tertiary_swell_wave_period"))),
         wS \in snapshotMedian(nonNull(windSpeeds)),
         wT \in snapshotMedian(nonNull(ch("sea_surface_temperature")))}

\* the day the request is served on, and the days around it the overview
\* covers: today - PastSpan .. today from Redis, today .. today + FutureSpan
\* from the providers
Today == 1
PastSpan == 1
FutureSpan == 1

\* a tier, and a summary of the overview, as NextResponse.json writes them
jsonTier(t) ==
    IF IsNull(t) THEN Null
    ELSE [k |-> "obj", height |-> jsonNumber(t.height), period |-> jsonNumber(t.period),
          direction |-> jsonNumber(t.direction)]

jsonDaily(sum) ==
    [sum EXCEPT !.swell = [k |-> "obj", primary |-> jsonTier(sum.swell.primary),
                           secondary |-> jsonTier(sum.swell.secondary),
                           tertiary |-> jsonTier(sum.swell.tertiary)],
                !.waveHeight = jsonNumber(@),
                !.wind = [k |-> "obj", speed |-> jsonNumber(sum.wind.speed),
                          direction |-> jsonNumber(sum.wind.direction)],
                !.waterTemperature = jsonNumber(@)]

\* rawSnaps[i]: Redis holds `store` under the key of its own date
rawSnap(store, d) ==
    IF ~IsNull(store) /\ store.date = DateStr(d) THEN store ELSE Null

\* { ...(snap?.hourly ?? {}), time: snap?.hourly?.time ?? [] }
pastHourly(snap) ==
    LET h == IF IsNull(snap.hourly) THEN emptyHourly ELSE snap.hourly
    IN  [c \in Channels \cup {"k", "time"} |->
            IF c = "k" THEN "obj"
            ELSE IF c = "time" THEN Coalesce(channelOf(h, "time"), Arr(<<>>))
            ELSE channelOf(h, c)]

\* hourlyCombined: the marine channels, and the wind channels only when the
\* forecast answered
hourlyCombined(mh, fh) ==
    [c \in Channels \cup {"k", "time"} |->
        IF c = "k" THEN "obj"
        ELSE IF c = "time"
             THEN Coalesce(channelOf(mh, "time"),
                           Coalesce(IF IsNull(fh) THEN Null ELSE fh.time, Arr(<<>>)))
        ELSE IF c \in {"wind_speed_10m", "wind_direction_10m"}
             THEN IF IsNull(fh) THEN Null ELSE fh[c]
        ELSE channelOf(mh, c)]

\* the answer of the overview POST handler
overviewPost(m, f, store) ==
    IF m.outcome = "rejected" \/ f.outcome = "rejected" THEN [status |-> 500]
    ELSE IF m.outcome # "ok" THEN [status |-> 502]
    ELSE
    LET pastOf(d) ==
            LET snap == rawSnap(store, d)
            IN  IF IsNull(snap) THEN Null
                ELSE mergeSnapshotAndBuilt(snap, buildDailyFromHourly(d, pastHourly(snap)))
        hc == hourlyCombined(marineHourlyOf(m), forecastHourlyOf(f))
        pastAll == [i \in 1..(PastSpan + 1) |-> pastOf(Today - PastSpan + i - 1)]
        futureAll == [i \in 1..(FutureSpan + 1) |-> buildDailyFromHourly(Today + i - 1, hc)]
        keep(days) == LET some == SelectSeq(days, LAMBDA x : ~IsNull(x))
                      IN  [i \in 1..Len(some) |-> jsonDaily(some[i])]
    IN  [status |-> 200, past |-> keep(pastAll), future |-> keep(futureAll)]

---------------------------------------------------------------------------
(* Calls: each action applies one function of the engine to the inputs *)

\* the outputs before any call
NoOutputs ==
    /\ tide = Null
    /\ daily = Null
    /\ merged = Null
    /\ dir = Null
    /\ med = Null
    /\ response = Null

\* none of the other operations has been started
FeedbackIdle ==
    /\ aggStore = Null
    /\ userStore = <<>>
    /\ posts = <<>>
    /\ postCount = <<>>

SeedIdle ==
    /\ queue = <<>>
    /\ workers = <<>>
    /\ results = [ok |-> 0, fail |-> 0]
    /\ sent = <<>>

OthersIdle ==
    /\ actual = Null
    /\ given = Null
    /\ summaries = <<>>
    /\ FeedbackIdle
    /\ SeedIdle

\* no median call and no POST request is pending
NoRequest ==
    /\ nums = <<>>
    /\ marine = Null
    /\ forecast = Null

CallTideEventsForDate ==
    /\ pc = "input"
    /\ ~IsNull(hourly)
    /\ IsArray(hourly.time)
    /\ tide' = tideEventsForDate(hourly.time.items, numArr(hourly.sea_level_height_msl), date)
    /\ pc' = "tideEventsForDate"
    /\ UNCHANGED <<date, hourly, daily, snapshot, built, merged, degs, dir,
                 nums, marine, forecast, med, response,
                 others>>

CallTideEventsForDay ==
    /\ pc = "input"
    /\ IsArray(hourly.time)
    /\ IsArray(hourly.sea_level_height_msl)
    /\ tide' = tideEventsForDay(hourly.time.items, hourly.sea_level_height_msl.items, date)
    /\ pc' = "tideEventsForDay"
    /\ UNCHANGED <<date, hourly, daily, snapshot, built, merged, degs, dir,
                 nums, marine, forecast, med, response,
                 others>>

CallBuildDailyFromHourly ==
    /\ pc = "input"
    /\ daily' = buildDailyFromHourly(date, hourly)
    /\ pc' = "buildDailyFromHourly"
    /\ UNCHANGED <<date, hourly, tide, snapshot, built, merged, degs, dir,
                 nums, marine, forecast, med, response,
                 others>>

CallMergeSnapshotAndBuilt ==
    /\ pc = "input"
    /\ merged' = mergeSnapshotAndBuilt(snapshot, built)
    /\ pc' = "mergeSnapshotAndBuilt"
    /\ UNCHANGED <<date, hourly, tide, daily, snapshot, built, degs, dir,
                 nums, marine, forecast, med, response,
                 others>>

CallMostCommonDirection ==
    /\ pc = "input"
    /\ dir' = mostCommonDirection(degs)
    /\ pc' = "mostCommonDirection"
    /\ UNCHANGED <<date, hourly, tide, daily, snapshot, built, merged, degs,
                 nums, marine, forecast, med, response,
                 others>>

\* median of the overview route.  Its parameter is number[]: every caller
\* passes the result of clean, so the call is made on numbers only.
CallMedian ==
    /\ pc = "input"
    /\ \A i \in 1..Len(nums) : IsNumeric(nums[i])
    /\ med' = median(nums)
    /\ nums' = valuesAfterMedian(nums)
    /\ pc' = "median"
    /\ UNCHANGED <<date, hourly, tide, daily, snapshot, built, merged, degs, dir,
                   marine, forecast, response,
                 others>>

\* median of the snapshot route, whose parameter may hold nulls
CallSnapshotMedian ==
    /\ pc = "input"
    /\ \E m \in snapshotMedian(nums) : med' = m
    /\ pc' = "snapshotMedian"
    /\ UNCHANGED <<date, hourly, tide, daily, snapshot, built, merged, degs, dir,
                   nums, marine, forecast, response,
                 others>>

\* one request to the snapshot POST handler
CallSnapshotPost ==
    /\ pc = "input"
    /\ marine # Null
    /\ \E r \in snapshotPost(marine, forecast) : response' = r
    /\ pc' = "snapshotPost"
    /\ UNCHANGED <<date, hourly, tide, daily, snapshot, built, merged, degs, dir,
                   nums, marine, forecast, med,
                 others>>

\* one request to the overview POST handler, Redis holding `snapshot`
CallOverviewPost ==
    /\ pc = "input"
    /\ marine # Null
    /\ response' = overviewPost(marine, forecast, snapshot)
    /\ pc' = "overviewPost"
    /\ UNCHANGED <<date, hourly, tide, daily, snapshot, built, merged, degs, dir,
                   nums, marine, forecast, med,
                 others>>

---------------------------------------------------------------------------
(* Tide detection: the sea-level series a call can receive *)

\* hours in a calendar day of the model
HoursPerDay == 5

\* the longest series: one hour of the day before, the day, one hour after
MaxLen == HoursPerDay + 2

\* sea-level heights, 1e-4 m: none is halfway between two multiples of 1e-3
TideHeights == {-6, 4, 10}

TideSamples == {Null} \cup {Num(h) : h \in TideHeights}

\* the g-th hour counted from day 0, hour 0
GridStamp(g) == Stamp(g \div HoursPerDay, g % HoursPerDay)

\* a series starts at the last hour of day 0 (padded) or the first of day 1
SeriesStarts == {HoursPerDay - 1, HoursPerDay}

\* the dates asked for
TideDates == {0, 1}

\* len consecutive hourly timestamps
TimesFrom(start, len) == [i \in 1..len |-> GridStamp(start + i - 1)]

\* an hourly bundle that carries only time and sea_level_height_msl
SeaLevelBundle(ts, hs) ==
    [k |-> "obj",
     time |-> Arr(ts),
     swell_wave_height |-> Null, swell_wave_period |-> Null, swell_wave_direction |-> Null,
     secondary_swell_wave_height |-> Null, secondary_swell_wave_period |-> Null,
     secondary_swell_wave_direction |-> Null,
     tertiary_swell_wave_height |-> Null, tertiary_swell_wave_period |-> Null,
     tertiary_swell_wave_direction |-> Null,
     wave_height |-> Null, wind_speed_10m |-> Null, wind_direction_10m |-> Null,
     sea_surface_temperature |-> Null,
     sea_level_height_msl |-> Arr(hs)]

InitTide ==
    /\ pc = "input"
    /\ date \in TideDates
    /\ \E start \in SeriesStarts, len \in 0..MaxLen :
         \E hs \in [1..len -> TideSamples] :
            hourly = SeaLevelBundle(TimesFrom(start, len), hs)
    /\ snapshot = Null
    /\ built = Null
    /\ degs = <<>>
    /\ NoRequest
    /\ NoOutputs
    /\ OthersIdle

NextTide ==
    \/ CallTideEventsForDate
    \/ CallTideEventsForDay
    \/ CallBuildDailyFromHourly

SpecTide == InitTide /\ [][NextTide]_vars

---------------------------------------------------------------------------
(* Tide detection: the properties, stated on the inputs *)

\* the series of the call
inTimes == hourly.time.items
inLevels == hourly.sea_level_height_msl.items

\* the i-th hour has a sea-level sample
HasSample(i) == i \in 1..Len(inLevels) /\ inLevels[i].k = "num"

\* the indices of the samples that fall on the target date
DaySamples == {i \in 1..Len(inTimes) : inTimes[i].day = date /\ HasSample(i)}

\* i is a turning point of the series, on the target date, with both neighbours
TurningPoint(i, wantHigh) ==
    /\ i \in 2..(Len(inTimes) - 1)
    /\ inTimes[i].day = date
    /\ HasSample(i - 1) /\ HasSample(i) /\ HasSample(i + 1)
    /\ IF wantHigh
       THEN inLevels[i].v > inLevels[i - 1].v /\ inLevels[i].v > inLevels[i + 1].v
       ELSE inLevels[i].v < inLevels[i - 1].v /\ inLevels[i].v < inLevels[i + 1].v

LocalMaxima == {i \in 1..Len(inTimes) : TurningPoint(i, TRUE)}
LocalMinima == {i \in 1..Len(inTimes) : TurningPoint(i, FALSE)}

\* the event reported for sample i
Reported(i) == Evt(inTimes[i], fix(inLevels[i].v))

\* the first-occurring greatest (least) sample of the day
FirstDayMax == CHOOSE i \in DaySamples :
    \A j \in DaySamples : inLevels[j].v < inLevels[i].v \/ (inLevels[j].v = inLevels[i].v /\ i <= j)
FirstDayMin == CHOOSE i \in DaySamples :
    \A j \in DaySamples : inLevels[j].v > inLevels[i].v \/ (inLevels[j].v = inLevels[i].v /\ i <= j)

\* every hour of the series on the target date has a sample and the day rises
MonotoneDay ==
    /\ DaySamples # {}
    /\ \A i \in 1..Len(inTimes) : inTimes[i].day = date => HasSample(i)
    /\ \A i, j \in DaySamples : i < j => inLevels[i].v < inLevels[j].v

\* the events of a list are in strictly ascending time order
AscendingTime(evs) ==
    \A a, b \in 1..Len(evs) : a < b => TimeKey(evs[a].time) < TimeKey(evs[b].time)

TideDone == pc = "tideEventsForDate"

\* C3: on the fallback (a candidate set empty, the date has a sample) the
\* result is one high and one low: the first-occurring maximum and minimum of
\* the date's samples; a monotonically rising day gives its last sample as the
\* high and its first as the low.
C3_Fallback ==
    TideDone =>
        /\ ((LocalMaxima = {} \/ LocalMinima = {}) /\ DaySamples # {}) =>
              /\ tide.highs = <<Reported(FirstDayMax)>>
              /\ tide.lows = <<Reported(FirstDayMin)>>
        /\ MonotoneDay =>
              /\ tide.highs = <<Reported(CHOOSE i \in DaySamples : \A j \in DaySamples : j <= i)>>
              /\ tide.lows = <<Reported(CHOOSE i \in DaySamples : \A j \in DaySamples : i <= j)>>

\* the fallback ran on a day of three or more samples whose maximum occurs
\* twice and not at the first sample
C3_Witness ==
    /\ TideDone
    /\ LocalMaxima = {}
    /\ Cardinality(DaySamples) >= 3
    /\ \E i, j \in DaySamples : i < j /\ inLevels[i].v = inLevels[j].v
                                /\ inLevels[i].v = inLevels[FirstDayMax].v
    /\ \E i \in DaySamples : i < FirstDayMax
    /\ Len(tide.highs) = 1 /\ Len(tide.lows) = 1

\* the events of evs are the best Min(2, n) of the candidates cands, in time
\* order: sign = 1 ranks by greatest height, sign = -1 by least
BestTwo(evs, cands, sign) ==
    /\ Len(evs) = (IF Cardinality(cands) < 2 THEN Cardinality(cands) ELSE 2)
    /\ AscendingTime(evs)
    /\ \A a \in 1..Len(evs) : \E i \in cands : evs[a] = Reported(i)
    /\ \A i \in cands :
          \/ \E a \in 1..Len(evs) : evs[a].time = inTimes[i]
          \/ \A j \in cands : (\E a \in 1..Len(evs) : evs[a].time = inTimes[j])
                                 => sign * inLevels[j].v >= sign * inLevels[i].v

\* C4: with both candidate sets non-empty the highs are the min(2, n) highest
\* turning points of the date and the lows the min(2, m) lowest, each list in
\* ascending time order.
C4_TopTwo ==
    (TideDone /\ LocalMaxima # {} /\ LocalMinima # {}) =>
        /\ BestTwo(tide.highs, LocalMaxima, 1)
        /\ BestTwo(tide.lows, LocalMinima, -1)

\* three maxima of which the earliest is the lowest
C4_Witness ==
    /\ TideDone
    /\ Cardinality(LocalMaxima) >= 3
    /\ LocalMinima # {}
    /\ \E i \in LocalMaxima : \A j \in LocalMaxima \ {i} :
          i < j /\ inLevels[i].v < inLevels[j].v
    /\ Len(tide.highs) = 2

\* C5: whatever the series and the date, at most 2 highs and 2 lows come
\* back, each list in ascending time order, every event on the target date.
C5_Shape ==
    TideDone =>
        /\ Len(tide.highs) <= 2 /\ Len(tide.lows) <= 2
        /\ AscendingTime(tide.highs) /\ AscendingTime(tide.lows)
        /\ \A a \in 1..Len(tide.highs) : StartsWith(tide.highs[a].time, date)
        /\ \A a \in 1..Len(tide.lows) : StartsWith(tide.lows[a].time, date)

\* two highs and two lows, the later low being the lower one, from a series
\* with a gap
C5_Witness ==
    /\ TideDone
    /\ Len(tide.highs) = 2 /\ Len(tide.lows) = 2
    /\ tide.lows[2].height < tide.lows[1].height
    /\ \E i \in 1..Len(inTimes) : ~HasSample(i)

\* the convenience pair (value, time) is the event of extreme height in evs,
\* and null exactly when evs is empty
ExtremeOf(evs, value, time, sign) ==
    IF Len(evs) = 0 THEN IsNull(value) /\ IsNull(time)
    ELSE /\ ~IsNull(value) /\ ~IsNull(time)
         /\ \E a \in 1..Len(evs) : evs[a].time = time /\ evs[a].height = value.v
         /\ \A a \in 1..Len(evs) : sign * evs[a].height <= sign * value.v

\* C6: tideHigh/tideHighTime are the greatest-height event of highs and
\* tideLow/tideLowTime the least-height event of lows, null exactly when the
\* list is empty, in the detector's result and in the builder's summary.
C6_Convenience ==
    /\ TideDone =>
          /\ ExtremeOf(tide.highs, tide.tideHigh, tide.tideHighTime, 1)
          /\ ExtremeOf(tide.lows, tide.tideLow, tide.tideLowTime, -1)
    /\ (pc = "buildDailyFromHourly" /\ ~IsNull(daily)) =>
          /\ ExtremeOf(daily.tides.highs.items, daily.tideHigh, daily.tideHighTime, 1)
          /\ ExtremeOf(daily.tides.lows.items, daily.tideLow, daily.tideLowTime, -1)

\* a summary whose greatest high is the second in time
C6_Witness ==
    /\ pc = "buildDailyFromHourly"
    /\ ~IsNull(daily)
    /\ Len(daily.tides.highs.items) = 2
    /\ daily.tides.highs.items[2].height > daily.tides.highs.items[1].height
    /\ daily.tideHighTime = daily.tides.highs.items[2].time

\* the bundle with no event and null convenience fields
IsEmptyBundle(r) ==
    /\ r.highs = <<>> /\ r.lows = <<>>
    /\ IsNull(r.tideHigh) /\ IsNull(r.tideHighTime)
    /\ IsNull(r.tideLow) /\ IsNull(r.tideLowTime)

\* C7 as stated: with fewer than 3 samples on the target date tide detection
\* (either detector) returns the empty bundle with null convenience fields.
C7_Original ==
    (pc \in {"tideEventsForDate", "tideEventsForDay"} /\ Cardinality(DaySamples) < 3)
        => IsEmptyBundle(tide)

\* C7 amended: the snapshot route's tideEventsForDay returns the empty bundle
\* with null convenience fields whenever fewer than 3 samples fall on the
\* date; the overview's tideEventsForDate does so only when no sample falls on
\* the date, and with 1 or 2 samples returns one high and one low.
C7_Amended ==
    /\ (pc = "tideEventsForDay" /\ Cardinality(DaySamples) < 3) => IsEmptyBundle(tide)
    /\ (pc = "tideEventsForDate" /\ Cardinality(DaySamples) < 3) =>
          IF DaySamples = {} THEN IsEmptyBundle(tide)
          ELSE Len(tide.highs) = 1 /\ Len(tide.lows) = 1

\* tideEventsForDay ran on a day of exactly two samples of different heights
C7_Witness ==
    /\ pc = "tideEventsForDay"
    /\ Cardinality(DaySamples) = 2
    /\ \E i, j \in DaySamples : inLevels[i].v < inLevels[j].v
    /\ IsEmptyBundle(tide)

\* i is the first hour of the target date, the hour before it is in the
\* series, and i is the date's only turning point of its kind
BoundaryTurn(i, wantHigh) ==
    /\ i \in 2..Len(inTimes)
    /\ inTimes[i] = Stamp(date, 0)
    /\ inTimes[i - 1].day = date - 1
    /\ i + 1 <= Len(inTimes) /\ inTimes[i + 1].day = date
    /\ TurningPoint(i, wantHigh)
    /\ \A j \in 1..Len(inTimes) : TurningPoint(j, wantHigh) => j = i

\* the sample i is among the events evs
Returned(evs, i) == \E a \in 1..Len(evs) : evs[a] = Reported(i)

\* C8 as stated: a first-hour sample that is the date's only strict local
\* maximum (minimum), seen with the prior day's last hour, is returned as a
\* high (low).
C8_Original ==
    TideDone =>
        \A i \in 1..Len(inTimes) :
            /\ BoundaryTurn(i, TRUE) => Returned(tide.highs, i)
            /\ BoundaryTurn(i, FALSE) => Returned(tide.lows, i)

\* C8 amended: such a sample is returned as a high when the date also has a
\* strict local minimum (as a low when it also has a strict local maximum);
\* when it has none the fallback reports the first-occurring greatest (least)
\* sample of the date instead.
C8_Amended ==
    TideDone =>
        \A i \in 1..Len(inTimes) :
            /\ BoundaryTurn(i, TRUE) =>
                  IF LocalMinima # {} THEN Returned(tide.highs, i)
                  ELSE tide.highs = <<Reported(FirstDayMax)>>
            /\ BoundaryTurn(i, FALSE) =>
                  IF LocalMaxima # {} THEN Returned(tide.lows, i)
                  ELSE tide.lows = <<Reported(FirstDayMin)>>

\* the first hour of the date is its only maximum, a minimum follows, and a
\* later sample of the date is higher than the first hour
C8_Witness ==
    /\ TideDone
    /\ \E i \in 1..Len(inTimes) :
          /\ BoundaryTurn(i, TRUE)
          /\ Returned(tide.highs, i)
          /\ \E j \in DaySamples : inLevels[j].v > inLevels[i].v
    /\ LocalMinima # {}

\* the series has hours before and after the target date
PaddedBothSides ==
    /\ \E i \in 1..Len(inTimes) : inTimes[i].day < date
    /\ \E i \in 1..Len(inTimes) : inTimes[i].day > date

\* C9: a series padded on both sides whose target date holds exactly one
\* strict local maximum and one strict local minimum gives exactly 1 high and
\* 1 low, at the timestamps of that maximum and that minimum.
C9_SingleCycle ==
    (TideDone /\ PaddedBothSides
        /\ Cardinality(LocalMaxima) = 1 /\ Cardinality(LocalMinima) = 1) =>
        /\ Len(tide.highs) = 1 /\ Len(tide.lows) = 1
        /\ \A i \in LocalMaxima : tide.highs[1] = Reported(i)
        /\ \A i \in LocalMinima : tide.lows[1] = Reported(i)

\* one maximum and one minimum on a padded day on which another sample is as
\* high as the maximum
C9_Witness ==
    /\ TideDone /\ PaddedBothSides
    /\ Cardinality(LocalMaxima) = 1 /\ Cardinality(LocalMinima) = 1
    /\ \E i \in LocalMaxima : \E j \in DaySamples : j < i /\ inLevels[j].v = inLevels[i].v
    /\ Len(tide.highs) = 1

---------------------------------------------------------------------------
(* Reconciliation: the snapshots and built summaries a merge can receive *)

SwellTiers == {"primary", "secondary", "tertiary"}
SwellLeaves == {"height", "period", "direction"}

\* a value a persisted leaf holds, and a value a built leaf holds
PersistedValue == Num(12)
BuiltValue == Num(98)

Tier(h, p, d) == [k |-> "obj", height |-> h, period |-> p, direction |-> d]

\* a tier object with every combination of null and non-null leaves
TierShapes(val) ==
    {Tier(h, p, d) : h \in {Null, val}, p \in {Null, val}, d \in {Null, val}}

PersistedSwells ==
    {Null} \cup
    {[k |-> "obj", primary |-> a, secondary |-> b, tertiary |-> c] :
        a \in {Null} \cup TierShapes(PersistedValue),
        b \in {Null, Tier(PersistedValue, PersistedValue, PersistedValue)},
        c \in {Null, Tier(PersistedValue, Null, Null)}}

BuiltSwells ==
    {[k |-> "obj", primary |-> a, secondary |-> b, tertiary |-> c] :
        a \in {Null} \cup TierShapes(BuiltValue),
        b \in {Null, Tier(BuiltValue, BuiltValue, BuiltValue)},
        c \in {Null, Tier(Null, BuiltValue, BuiltValue)}}

\* persisted event lists: missing, empty, one event
PersistedHighs == {Null, Arr(<<>>), Arr(<<Evt(Stamp(1, 1), 30)>>)}
PersistedLows == {Null, Arr(<<>>), Arr(<<Evt(Stamp(1, 3), -20)>>)}

PersistedTides ==
    {Null} \cup {[k |-> "obj", highs |-> hs, lows |-> ls] :
                    hs \in PersistedHighs, ls \in PersistedLows}

BuiltTides ==
    {[k |-> "obj", highs |-> Arr(<<>>), lows |-> Arr(<<>>)],
     [k |-> "obj", highs |-> Arr(<<Evt(Stamp(1, 2), 10)>>),
                   lows |-> Arr(<<Evt(Stamp(1, 4), -10)>>)]}

\* a summary object; set is whether its single-value fields are filled
Summary(swell, tides, set, val, hiEvt, loEvt) ==
    [k |-> "obj",
     date |-> DateStr(1),
     swell |-> swell,
     waveHeight |-> IF set THEN val ELSE Null,
     wind |-> [k |-> "obj", speed |-> IF set THEN val ELSE Null,
                            direction |-> IF set THEN val ELSE Null],
     waterTemperature |-> IF set THEN val ELSE Null,
     tideHigh |-> IF set THEN Num(hiEvt.height) ELSE Null,
     tideHighTime |-> IF set THEN hiEvt.time ELSE Null,
     tideLow |-> IF set THEN Num(loEvt.height) ELSE Null,
     tideLowTime |-> IF set THEN loEvt.time ELSE Null,
     tides |-> tides]

PersistedSummaries ==
    {Null} \cup
    {Summary(sw, td, set, PersistedValue, Evt(Stamp(1, 1), 30), Evt(Stamp(1, 3), -20)) :
        sw \in PersistedSwells, td \in PersistedTides, set \in BOOLEAN}

Snapshots ==
    {Null} \cup {[k |-> "obj", date |-> DateStr(1), summary |-> sm] : sm \in PersistedSummaries}

BuiltSummaries ==
    {Null} \cup
    {Summary(sw, td, set, BuiltValue, Evt(Stamp(1, 2), 10), Evt(Stamp(1, 4), -10)) :
        sw \in BuiltSwells, td \in BuiltTides, set \in BOOLEAN}

InitMerge ==
    /\ pc = "input"
    /\ date = 1
    /\ hourly = Null
    /\ snapshot \in Snapshots
    /\ built \in BuiltSummaries
    /\ degs = <<>>
    /\ NoRequest
    /\ NoOutputs
    /\ OthersIdle

NextMerge == CallMergeSnapshotAndBuilt

SpecMerge == InitMerge /\ [][NextMerge]_vars

\* the field f of an object that may be null
Field(obj, f) == IF IsNull(obj) THEN Null ELSE obj[f]

\* the persisted, built and merged value of a swell leaf
PersistedLeaf(tier, leaf) ==
    Field(Field(Field(Field(snapshot, "summary"), "swell"), tier), leaf)
BuiltLeaf(tier, leaf) == Field(Field(Field(built, "swell"), tier), leaf)
MergedLeaf(tier, leaf) == Field(Field(Field(merged, "swell"), tier), leaf)

MergeDone == pc = "mergeSnapshotAndBuilt" /\ ~IsNull(merged)

\* C1: every swell leaf of the merge is the persisted value when that is
\* non-null, otherwise the built value, otherwise null, leaf by leaf.
C1_PerLeaf ==
    MergeDone =>
        \A tier \in SwellTiers, leaf \in SwellLeaves :
            MergedLeaf(tier, leaf) =
                Coalesce(PersistedLeaf(tier, leaf), BuiltLeaf(tier, leaf))

\* the persisted tides bundle, and whether it holds an event
PersistedTideBundle == Field(Field(snapshot, "summary"), "tides")
EventsOf(list) == IF IsNull(list) THEN <<>> ELSE list.items
PersistedHasEvent ==
    \/ Len(EventsOf(Field(PersistedTideBundle, "highs"))) > 0
    \/ Len(EventsOf(Field(PersistedTideBundle, "lows"))) > 0

\* C2: the merged tides are the persisted bundle exactly when that bundle
\* holds a high or a low; otherwise they are the built bundle.
C2_TidesWholesale ==
    MergeDone =>
        /\ PersistedHasEvent =>
              /\ merged.tides.highs.items = EventsOf(PersistedTideBundle.highs)
              /\ merged.tides.lows.items = EventsOf(PersistedTideBundle.lows)
        /\ ~PersistedHasEvent =>
              /\ merged.tides.highs.items = EventsOf(Field(Field(built, "tides"), "highs"))
              /\ merged.tides.lows.items = EventsOf(Field(Field(built, "tides"), "lows"))

---------------------------------------------------------------------------
(* Direction mode: the bearings a call can receive *)

\* the longest list of bearings
MaxDegs == 5

\* bearings in tenths of a degree: 1, 2, 358, 359, 200 and -1.4 degrees
DirSamples == {Null, NaN} \cup {Num(a) : a \in {10, 20, 3580, 3590, 2000, -14}}

InitDir ==
    /\ pc = "input"
    /\ date = 1
    /\ hourly = Null
    /\ snapshot = Null
    /\ built = Null
    /\ \E n \in 0..MaxDegs : degs \in [1..n -> DirSamples]
    /\ NoRequest
    /\ NoOutputs
    /\ OthersIdle

NextDir == CallMostCommonDirection

SpecDir == InitDir /\ [][NextDir]_vars

\* the bearings that count, in whole degrees 0..359 (360 is 0)
CompassDegs ==
    LET kept == SelectSeq(degs, LAMBDA x : x.k = "num")
    IN  [i \in 1..Len(kept) |-> normalizeDeg(kept[i].v) % 360]

\* how many bearings fall in the 10-degree bin around b, on the circle
CircularCount(b) ==
    Cardinality({i \in 1..Len(CompassDegs) : binOf(CompassDegs[i]) % 360 = b})

\* C10: the result is null or a bearing in [0, 360); bearings just below 360
\* are counted in the bin of those just above 0; 360 is never returned.
C10_Compass ==
    pc = "mostCommonDirection" =>
        \/ IsNull(dir)
        \/ /\ dir.v >= 0 /\ dir.v < 360
           /\ \A b \in 0..359 : CircularCount(b) <= CircularCount(dir.v)

\* the bearings of the input that are numbers, each normalized to whole
\* degrees and rounded to its 10-degree bin key
BinKeyOfSample ==
    LET kept == SelectSeq(degs, LAMBDA x : x.k = "num")
    IN  [i \in 1..Len(kept) |-> ((normalizeDeg(kept[i].v) + 5) \div 10) * 10]

\* the bins that hold at least one bearing, and how many each holds
OccupiedBins == {BinKeyOfSample[i] : i \in 1..Len(BinKeyOfSample)}
Occupancy(b) == Cardinality({i \in 1..Len(BinKeyOfSample) : BinKeyOfSample[i] = b})

DirDone == pc = "mostCommonDirection"

\* C11: with at least one bearing that is a number, mostCommonDirection
\* returns the key of an occupied 10-degree bin that no other bin out-counts;
\* with no bearing that is a number (empty or all null) it returns null.
C11_MostOccupied ==
    DirDone =>
        IF OccupiedBins = {} THEN dir = Null
        ELSE /\ dir.k = "num"
             /\ dir.v \in OccupiedBins
             /\ \A b \in OccupiedBins : Occupancy(b) <= Occupancy(dir.v)

\* a call where a larger bin key is out-counted by a smaller one and the
\* fuller bin is returned
C11_Witness ==
    /\ DirDone
    /\ dir.k = "num"
    /\ \E b \in OccupiedBins : b > dir.v /\ Occupancy(b) < Occupancy(dir.v)
    /\ \E b \in OccupiedBins : b < dir.v /\ Occupancy(b) < Occupancy(dir.v)

\* the input with the bearings at i and i + 1 exchanged
SwapAt(s, i) ==
    [j \in 1..Len(s) |-> IF j = i THEN s[i + 1] ELSE IF j = i + 1 THEN s[i] ELSE s[j]]

\* the bins of the highest occupancy
FullestBins == {b \in OccupiedBins : \A c \in OccupiedBins : Occupancy(c) <= Occupancy(b)}

\* C12: when several bins share the highest count the smallest of their keys
\* is returned, and exchanging any two neighbouring bearings of the input
\* (hence any reordering) leaves the result unchanged.
C12_SmallestOnTie ==
    (DirDone /\ OccupiedBins # {}) =>
        /\ dir.k = "num"
        /\ dir.v \in FullestBins
        /\ \A b \in FullestBins : dir.v <= b
        /\ \A i \in 1..(Len(degs) - 1) : mostCommonDirection(SwapAt(degs, i)) = dir

\* a call whose fullest bins are tied and whose first bearing lies in the
\* largest of them
C12_Witness ==
    /\ DirDone
    /\ Cardinality(FullestBins) >= 2
    /\ Len(degs) >= 2
    /\ degs[1].k = "num"
    /\ \A b \in FullestBins : b <= ((normalizeDeg(degs[1].v) + 5) \div 10) * 10
    /\ \E b \in FullestBins : dir.v = b

---------------------------------------------------------------------------
(* median: the arrays a call can receive *)

\* the longest array handed to median
MaxNums == 4

\* the entries of the array, in halves: Num(2) stands for 1, Num(18) for 9
MedianSamples == {Null} \cup {Num(a) : a \in {-6, 2, 4, 16, 18}}

InitMedian ==
    /\ pc = "input"
    /\ date = 1
    /\ hourly = Null
    /\ snapshot = Null
    /\ built = Null
    /\ degs = <<>>
    /\ \E n \in 0..MaxNums : nums \in [1..n -> MedianSamples]
    /\ marine = Null
    /\ forecast = Null
    /\ NoOutputs
    /\ OthersIdle

NextMedian ==
    \/ CallMedian
    \/ CallSnapshotMedian

SpecMedian == InitMedian /\ [][NextMedian]_vars

MedianDone == pc \in {"median", "snapshotMedian"}

\* how many entries of the array lie below x, and how many do not exceed it
CountBelow(x) == Cardinality({i \in 1..Len(nums) : nums[i].v < x})
CountUpTo(x) == Cardinality({i \in 1..Len(nums) : nums[i].v <= x})

\* the r-th element of the ascending order of the array
Ranked(r) ==
    CHOOSE x \in {nums[i].v : i \in 1..Len(nums)} : CountBelow(x) < r /\ r <= CountUpTo(x)

\* C13: median returns null for an empty array; for an odd-length array of
\* numbers the middle element of the ascending order; for an even-length one
\* the mean of the two middle elements ([1,2,9] gives 2, [1,2,8,9] gives 5).
C13_Median ==
    (MedianDone /\ \A i \in 1..Len(nums) : nums[i].k = "num") =>
        /\ Len(nums) = 0 => med = Null
        /\ Len(nums) % 2 = 1 => med = Num(Ranked((Len(nums) \div 2) + 1))
        /\ (Len(nums) > 0 /\ Len(nums) % 2 = 0) =>
              /\ med.k = "num"
              /\ 2 * med.v = Ranked(Len(nums) \div 2) + Ranked((Len(nums) \div 2) + 1)
        /\ nums = <<Num(2), Num(4), Num(18)>> => med = Num(4)
        /\ nums = <<Num(2), Num(4), Num(16), Num(18)>> => med = Num(10)

\* the overview median called on [9, 1, 8, 2], unsorted, answers 5
C13_Witness ==
    /\ pc = "median"
    /\ nums = <<Num(18), Num(2), Num(16), Num(4)>>
    /\ med = Num(10)

---------------------------------------------------------------------------
(* buildDailyFromHourly: the hourly bundles a call can receive *)

\* hours of the day the provider answers for
DayHours == 3

\* day 1 in full, between the last hour of day 0 and the first of day 2
PaddedTimes ==
    <<Stamp(0, DayHours - 1)>> \o [h \in 1..DayHours |-> Stamp(1, h - 1)] \o <<Stamp(2, 0)>>

\* day 1 alone
UnpaddedTimes == [h \in 1..DayHours |-> Stamp(1, h - 1)]

\* the values of hourly.time: missing, not an array, or an array of stamps
BuildTimes == {Null, Str, Arr(<<>>), Arr(UnpaddedTimes), Arr(PaddedTimes)}

\* the dates asked for: day 3 has no timestamp in any bundle
BuildDates == {1, 2, 3}

\* the samples of a channel (heights in 1e-4 m, bearings in tenths of a degree)
BuildSamples == {Null, Num(0), Num(200)}

\* the length hourly.time gives a full channel
TimeLen(t) == IF IsArray(t) THEN Len(t.items) ELSE 0

\* a channel that is missing, or an array no longer than hourly.time
ChannelArrays(t) ==
    {Null} \cup {Arr(a) : a \in UNION {[1..n -> BuildSamples] : n \in 0..TimeLen(t)}}

\* what the other channels hold: all missing, or all a full constant series
RestArrays(t) == {Null, Arr([i \in 1..TimeLen(t) |-> Num(200)])}

\* the bundle with `a` in channel `slot` and `rest` in every other channel
Bundle(t, slot, a, rest) ==
    [f \in Channels \cup {"k", "time"} |->
        IF f = "k" THEN "obj"
        ELSE IF f = "time" THEN t
        ELSE IF f = slot THEN a
        ELSE rest]

InitBuild ==
    /\ pc = "input"
    /\ date \in BuildDates
    /\ \/ hourly = Null
       \/ \E t \in BuildTimes, slot \in Channels :
            \E a \in ChannelArrays(t), rest \in RestArrays(t) :
                hourly = Bundle(t, slot, a, rest)
    /\ snapshot = Null
    /\ built = Null
    /\ degs = <<>>
    /\ NoRequest
    /\ NoOutputs
    /\ OthersIdle

NextBuild ==
    \/ CallBuildDailyFromHourly
    \/ CallTideEventsForDate

SpecBuild == InitBuild /\ [][NextBuild]_vars

BuildDone == pc = "buildDailyFromHourly"

\* hourly.time is an array and none of its timestamps is on the date
NoStampOnDate ==
    /\ ~IsNull(hourly)
    /\ IsArray(hourly.time)
    /\ \A i \in 1..Len(hourly.time.items) : ~StartsWith(hourly.time.items[i], date)

\* hourly is missing or hourly.time is not an array
NoTimeArray == IF IsNull(hourly) THEN TRUE ELSE ~IsArray(hourly.time)

\* C14: buildDailyFromHourly returns null exactly when the bundle is missing,
\* hourly.time is not an array, or no timestamp is on the date; in every
\* other case it returns a summary object carrying that date.
C14_NullIff ==
    BuildDone =>
        IF NoTimeArray \/ NoStampOnDate THEN daily = Null
        ELSE daily.k = "obj" /\ daily.date = DateStr(date)

\* a bundle with timestamps and samples, none of them on the date asked for
C14_Witness ==
    /\ BuildDone
    /\ NoStampOnDate
    /\ Len(hourly.time.items) > 0
    /\ \E f \in Channels : IsArray(hourly[f]) /\ \E i \in 1..Len(hourly[f].items) : ~IsNull(hourly[f].items[i])
    /\ daily = Null

\* a channel made as long as hourly.time by writing null at every hour it
\* lacks; a missing channel becomes all null
NullPadded(ch) ==
    Arr([i \in 1..TimeLen(hourly.time) |-> IF IsArray(ch) THEN At(ch.items, i) ELSE Null])

\* the bundle with every channel padded so
PaddedBundle ==
    [f \in DOMAIN hourly |-> IF f \in Channels THEN NullPadded(hourly[f]) ELSE hourly[f]]

\* a leaf of a swell tier; null when the tier itself is null
TierLeaf(tier, leaf) == IF IsNull(tier) THEN Null ELSE tier[leaf]

\* the field of the summary that a channel feeds
SummaryField(sum, f) ==
    CASE f = "swell_wave_height" -> TierLeaf(sum.swell.primary, "height")
      [] f = "swell_wave_period" -> TierLeaf(sum.swell.primary, "period")
      [] f = "swell_wave_direction" -> TierLeaf(sum.swell.primary, "direction")
      [] f = "secondary_swell_wave_height" -> TierLeaf(sum.swell.secondary, "height")
      [] f = "secondary_swell_wave_period" -> TierLeaf(sum.swell.secondary, "period")
      [] f = "secondary_swell_wave_direction" -> TierLeaf(sum.swell.secondary, "direction")
      [] f = "tertiary_swell_wave_height" -> TierLeaf(sum.swell.tertiary, "height")
      [] f = "tertiary_swell_wave_period" -> TierLeaf(sum.swell.tertiary, "period")
      [] f = "tertiary_swell_wave_direction" -> TierLeaf(sum.swell.tertiary, "direction")
      [] f = "wave_height" -> sum.waveHeight
      [] f = "wind_speed_10m" -> sum.wind.speed
      [] f = "wind_direction_10m" -> sum.wind.direction
      [] f = "sea_surface_temperature" -> sum.waterTemperature
      [] f = "sea_level_height_msl" -> sum.tideHigh

\* a channel that is an array shorter than hourly.time and holds a sample
ShortChannel(f) ==
    /\ IsArray(hourly[f])
    /\ Len(hourly[f].items) < TimeLen(hourly.time)
    /\ \E i \in 1..Len(hourly[f].items) : ~IsNull(hourly[f].items[i])

\* C15: a channel that is missing or shorter than hourly.time gives the same
\* summary and the same tide events as the channel padded with null up to the
\* length of hourly.time, and a channel that is missing entirely leaves null
\* in the summary field it feeds (no tide events for the sea level).
C15_ShortChannels ==
    /\ (BuildDone /\ ~IsNull(daily)) =>
          /\ daily = buildDailyFromHourly(date, PaddedBundle)
          /\ \A f \in Channels : IsNull(hourly[f]) => IsNull(SummaryField(daily, f))
          /\ IsNull(hourly.sea_level_height_msl) =>
                /\ daily.tides.highs = Arr(<<>>)
                /\ daily.tides.lows = Arr(<<>>)
                /\ IsNull(daily.tideLow)
    /\ pc = "tideEventsForDate" =>
          tide = tideEventsForDate(hourly.time.items,
                                   numArr(PaddedBundle.sea_level_height_msl), date)

\* a summary built while a channel with samples ends before the last hour of
\* the date and another channel is missing
C15_Witness ==
    /\ BuildDone
    /\ ~IsNull(daily)
    /\ \E f \in Channels :
          /\ ShortChannel(f)
          /\ ~IsNull(SummaryField(daily, f))
          /\ \E i \in 1..TimeLen(hourly.time) :
                i > Len(hourly[f].items) /\ StartsWith(hourly.time.items[i], date)
    /\ \E f \in Channels : IsNull(hourly[f])

\* the channel has a non-null sample at an hour of the date
DayHasSample(f) ==
    /\ IsArray(hourly[f])
    /\ \E i \in 1..Len(hourly[f].items) :
          /\ i <= TimeLen(hourly.time)
          /\ StartsWith(hourly.time.items[i], date)
          /\ ~IsNull(hourly[f].items[i])

\* the channels of the three swell tiers
TierChannels ==
    [primary   |-> [height |-> "swell_wave_height", period |-> "swell_wave_period",
                    direction |-> "swell_wave_direction"],
     secondary |-> [height |-> "secondary_swell_wave_height",
                    period |-> "secondary_swell_wave_period",
                    direction |-> "secondary_swell_wave_direction"],
     tertiary  |-> [height |-> "tertiary_swell_wave_height",
                    period |-> "tertiary_swell_wave_period",
                    direction |-> "tertiary_swell_wave_direction"]]

\* C16: a swell tier of the built summary is null exactly when none of its
\* height, period and direction channels has a non-null sample on the date;
\* otherwise it is an object whose leaves without samples are null and whose
\* other leaves are not (a median height of 0 included).
C16_TierAbsence ==
    (BuildDone /\ ~IsNull(daily)) =>
        \A t \in DOMAIN TierChannels :
            IF \A l \in DOMAIN TierChannels[t] : ~DayHasSample(TierChannels[t][l])
            THEN IsNull(daily.swell[t])
            ELSE /\ daily.swell[t].k = "obj"
                 /\ \A l \in DOMAIN TierChannels[t] :
                        IsNull(daily.swell[t][l]) <=> ~DayHasSample(TierChannels[t][l])

\* a tier whose only samples are heights with median 0 is an object with
\* height 0 and no period or direction, next to a tier that is null
C16_Witness ==
    /\ BuildDone
    /\ ~IsNull(daily)
    /\ \E t \in DOMAIN TierChannels :
          /\ ~IsNull(daily.swell[t])
          /\ daily.swell[t].height = Num(0)
          /\ IsNull(daily.swell[t].period)
          /\ IsNull(daily.swell[t].direction)
    /\ \E t \in DOMAIN TierChannels : IsNull(daily.swell[t])

\* the positions of channel f that hold a non-null sample at an hour of the date
DayPositions(f) ==
    IF ~IsArray(hourly[f]) THEN {}
    ELSE {i \in 1..Len(hourly[f].items) :
            /\ i <= TimeLen(hourly.time)
            /\ StartsWith(hourly.time.items[i], date)
            /\ ~IsNull(hourly[f].items[i])}

\* the r-th smallest of the day's samples of channel f
DayRanked(f, r) ==
    LET P == DayPositions(f)
        val(i) == hourly[f].items[i].v
    IN  CHOOSE x \in {val(i) : i \in P} :
            /\ Cardinality({i \in P : val(i) < x}) < r
            /\ r <= Cardinality({i \in P : val(i) <= x})

\* the median of the day's samples of channel f, null when there is none
DayMedian(f) ==
    LET n == Cardinality(DayPositions(f))
    IN  IF n = 0 THEN Null
        ELSE IF n % 2 = 1 THEN Num(DayRanked(f, (n \div 2) + 1))
        ELSE Num((DayRanked(f, n \div 2) + DayRanked(f, (n \div 2) + 1)) \div 2)

\* the 10-degree bin of the bearing at position i of channel f
DayBin(f, i) == ((normalizeDeg(hourly[f].items[i].v) + 5) \div 10) * 10

\* how many of the day's bearings of channel f lie in bin b
DayBinCount(f, b) == Cardinality({i \in DayPositions(f) : DayBin(f, i) = b})

\* the mode of the day's bearings of channel f: the smallest of the fullest
\* bins, null when the day has no bearing
DayMode(f) ==
    LET bs == {DayBin(f, i) : i \in DayPositions(f)}
    IN  IF bs = {} THEN Null
        ELSE Num(CHOOSE b \in bs :
                \A c \in bs : \/ DayBinCount(f, c) < DayBinCount(f, b)
                               \/ (DayBinCount(f, c) = DayBinCount(f, b) /\ b <= c))

\* the channels summarized by a median and those summarized by a mode
MedianChannels ==
    {"swell_wave_height", "swell_wave_period",
     "secondary_swell_wave_height", "secondary_swell_wave_period",
     "tertiary_swell_wave_height", "tertiary_swell_wave_period",
     "wave_height", "wind_speed_10m", "sea_surface_temperature"}
ModeChannels ==
    {"swell_wave_direction", "secondary_swell_wave_direction",
     "tertiary_swell_wave_direction", "wind_direction_10m"}

\* C19: in the built summary waveHeight, wind.speed, waterTemperature and the
\* swell heights and periods are the median of exactly the non-null samples
\* at hours of the date, and each direction is the mode of exactly that day's
\* bearings; samples at hours of the padding days have no influence.
C19_DayOnly ==
    (BuildDone /\ ~IsNull(daily)) =>
        /\ \A f \in MedianChannels : SummaryField(daily, f) = DayMedian(f)
        /\ \A f \in ModeChannels : SummaryField(daily, f) = DayMode(f)

\* a channel whose samples on the padding hours differ from the median (or
\* mode) of the date, which is what the summary reports
C19_Witness ==
    /\ BuildDone
    /\ ~IsNull(daily)
    /\ \E f \in MedianChannels \cup ModeChannels :
          /\ IsArray(hourly[f])
          /\ Len(hourly[f].items) = TimeLen(hourly.time)
          /\ Len(hourly[f].items) > 2
          /\ ~StartsWith(hourly.time.items[1], date)
          /\ hourly[f].items[1] = Num(200)
          /\ hourly[f].items[Len(hourly[f].items)] = Num(200)
          /\ ~StartsWith(hourly.time.items[Len(hourly[f].items)], date)
          /\ SummaryField(daily, f) = Num(0)

---------------------------------------------------------------------------
(* The POST handlers: the provider answers and the stored snapshot *)

\* a full-length channel, an empty one, or none
PostArrays(t) ==
    {Null, Arr(<<>>)} \cup {Arr(a) : a \in [1..TimeLen(t) -> BuildSamples]}

\* the values of marine.hourly.time
PostTimes == {Null, Arr(UnpaddedTimes), Arr(PaddedTimes)}

\* the channel of a marine body whose time is t; a body without time carries
\* no channel or one as long as the forecast's time
MarineArrays(t) ==
    IF TimeLen(t) > 0 THEN PostArrays(t)
    ELSE {Null, Arr([i \in 1..Len(PaddedTimes) |-> Num(200)])}

\* an answer of a provider: the fetch rejects, answers an error status, or
\* answers ok with a body whose hourly is h
Answer(outcome, h) == [outcome |-> outcome, hourly |-> h]

\* the marine answers that carry no hourly data
MarineFailures == {Answer("rejected", Null), Answer("error", Null), Answer("ok", Null)}

\* the hourly of a forecast body: wind for every padded hour
WindHourly ==
    [k |-> "obj", time |-> Arr(PaddedTimes),
     wind_speed_10m |-> Arr([i \in 1..Len(PaddedTimes) |-> Num(200)]),
     wind_direction_10m |-> Arr([i \in 1..Len(PaddedTimes) |-> Num(200)])]

ForecastAnswers ==
    {Answer("rejected", Null), Answer("error", Null), Answer("ok", Null),
     Answer("ok", WindHourly)}

\* what Redis holds: nothing, or yesterday's snapshot without a summary
StoredSnapshots ==
    {Null,
     [k |-> "obj", date |-> DateStr(Today - 1),
      hourly |-> Bundle(Arr([h \in 1..DayHours |-> Stamp(Today - 1, h - 1)]), "wave_height",
                        Arr([h \in 1..DayHours |-> Num(200)]), Null),
      summary |-> Null]}

InitPost ==
    /\ pc = "input"
    /\ date = Today
    /\ hourly = Null
    /\ snapshot \in StoredSnapshots
    /\ built = Null
    /\ degs = <<>>
    /\ nums = <<>>
    /\ \/ marine \in MarineFailures
       \/ \E t \in PostTimes, slot \in Channels :
            \E a \in MarineArrays(t), rest \in RestArrays(t) :
                marine = Answer("ok", Bundle(t, slot, a, rest))
    /\ forecast \in ForecastAnswers
    /\ NoOutputs
    /\ OthersIdle

NextPost ==
    \/ CallSnapshotPost
    \/ CallOverviewPost

SpecPost == InitPost /\ [][NextPost]_vars

\* the snapshot handler answered with a snapshot
SnapshotDone == pc = "snapshotPost" /\ response.status = 200

\* channel f of the marine answer holds a sample that is a number
MarineHasClean(f) ==
    /\ ~IsNull(marine.hourly)
    /\ IsArray(marine.hourly[f])
    /\ \E i \in 1..Len(marine.hourly[f].items) : IsNumeric(marine.hourly[f].items[i])

\* C17: in the summary the snapshot POST handler persists, the secondary and
\* tertiary tiers are null only when none of the tier's height, period and
\* direction channels has a clean sample; a median height of 0, or an empty
\* height channel next to period or direction samples, keeps the tier.
C17_SnapshotTiers ==
    SnapshotDone =>
        \A t \in {"secondary", "tertiary"} :
            IsNull(response.summary.swell[t]) =>
                \A l \in DOMAIN TierChannels[t] : ~MarineHasClean(TierChannels[t][l])

\* the marine fetch succeeded, with timestamps, and the wind fetch did not
WindFailed ==
    /\ marine # Null
    /\ marine.outcome = "ok"
    /\ ~IsNull(marine.hourly)
    /\ IsArray(marine.hourly.time)
    /\ forecast.outcome # "ok"

\* the same request with the wind fetch answered
WindAnswered == Answer("ok", WindHourly)

\* a summary with its wind fields blanked
WithoutWind(sum) == [sum EXCEPT !.wind = [k |-> "obj", speed |-> Null, direction |-> Null]]

\* the days of the future window that have a marine timestamp
MarineDays ==
    IF IsNull(marine.hourly) THEN {}
    ELSE IF ~IsArray(marine.hourly.time) THEN {}
    ELSE {d \in Today..(Today + FutureSpan) :
            \E i \in 1..Len(marine.hourly.time.items) : StartsWith(marine.hourly.time.items[i], d)}

\* the snapshot handler's answer is the one of the answered request with null wind
SnapshotDegraded ==
    /\ response.status = 200
    /\ IsNull(response.summary.wind.speed)
    /\ IsNull(response.summary.wind.direction)
    /\ \E r \in snapshotPost(marine, WindAnswered) :
          WithoutWind(r.summary) = response.summary

\* the overview handler's answer has a summary for each day with marine
\* timestamps, each the one of the answered request with null wind
OverviewDegraded ==
    /\ response.status = 200
    /\ \A d \in MarineDays : \E i \in 1..Len(response.future) : response.future[i].date = DateStr(d)
    /\ LET full == overviewPost(marine, WindAnswered, snapshot)
       IN  /\ response.past = full.past
           /\ Len(response.future) = Len(full.future)
           /\ \A i \in 1..Len(response.future) :
                 /\ IsNull(response.future[i].wind.speed)
                 /\ IsNull(response.future[i].wind.direction)
                 /\ response.future[i] = WithoutWind(full.future[i])

\* C18: when the wind fetch fails while the marine fetch succeeds, both POST
\* handlers still answer with a summary for every day that has marine
\* timestamps, in which the wind fields are null and every other field is
\* what it would be had the wind fetch succeeded.
C18_WindFailure ==
    /\ (pc = "snapshotPost" /\ WindFailed) => SnapshotDegraded
    /\ (pc = "overviewPost" /\ WindFailed) => OverviewDegraded

\* the same, for a wind fetch that answers with an error status only
HttpErrorDegrades ==
    /\ (pc = "snapshotPost" /\ WindFailed /\ forecast.outcome = "error") => SnapshotDegraded
    /\ (pc = "overviewPost" /\ WindFailed /\ forecast.outcome = "error") => OverviewDegraded

---------------------------------------------------------------------------
(* Cleaning: samples that are not finite numbers *)

\* the samples a channel can carry: null, NaN, a non-numeric string, the
\* infinities and finite numbers
CleanSamples == {Null, NaN, Str, Inf(1), Inf(-1), Num(0), Num(200)}

\* the channels summarized by a median or a mode
SummarizedChannels == Channels \ {"sea_level_height_msl"}

\* the wind channels of a bundle, as the forecast provider answers them
WindOf(h) ==
    [k |-> "obj", time |-> h.time, wind_speed_10m |-> h.wind_speed_10m,
     wind_direction_10m |-> h.wind_direction_10m]

\* one day of timestamps and one channel of up to DayHours samples, handed
\* to the builder as `hourly` and to the snapshot handler as the two answers
InitClean ==
    /\ pc = "input"
    /\ date = Today
    /\ \E slot \in SummarizedChannels, n \in 0..DayHours :
         \E a \in [1..n -> CleanSamples] :
            hourly = Bundle(Arr([h \in 1..DayHours |-> Stamp(Today, h - 1)]), slot, Arr(a), Null)
    /\ marine = Answer("ok", hourly)
    /\ forecast = Answer("ok", WindOf(hourly))
    /\ snapshot = Null
    /\ built = Null
    /\ degs = <<>>
    /\ nums = <<>>
    /\ NoOutputs
    /\ OthersIdle

NextClean ==
    \/ CallBuildDailyFromHourly
    \/ CallSnapshotPost

SpecClean == InitClean /\ [][NextClean]_vars

\* a channel with every sample that is not a finite number replaced by null
ScrubbedChannel(ch) ==
    IF ~IsArray(ch) THEN ch
    ELSE Arr([i \in 1..Len(ch.items) |-> IF ch.items[i].k = "num" THEN ch.items[i] ELSE Null])

\* a bundle with every channel scrubbed
Scrubbed(h) ==
    [f \in DOMAIN h |-> IF f \in Channels THEN ScrubbedChannel(h[f]) ELSE h[f]]

\* C20: null, NaN, infinite and non-numeric samples are dropped before
\* summarizing: the summary of buildDailyFromHourly and the one the snapshot
\* POST handler persists are those of the same input with every such sample
\* replaced by null.
C20_Dropped ==
    /\ BuildDone => daily = buildDailyFromHourly(date, Scrubbed(hourly))
    /\ SnapshotDone =>
          \E r \in snapshotPost(Answer("ok", Scrubbed(marine.hourly)),
                                 Answer("ok", Scrubbed(forecast.hourly))) :
              r.summary = response.summary

\* the same for null, NaN and non-numeric samples in the builder alone
BuilderDropsNaN ==
    (BuildDone /\ \A f \in Channels :
        IsArray(hourly[f]) => \A i \in 1..Len(hourly[f].items) : hourly[f].items[i].k # "inf")
    => daily = buildDailyFromHourly(date, Scrubbed(hourly))

---------------------------------------------------------------------------
(* Reconciliation of the single-value fields: every field varied on its own *)

\* the single-value fields of a summary, as paths
ScalarPaths ==
    <<  <<"waveHeight">>, <<"wind", "speed">>, <<"wind", "direction">>,
        <<"waterTemperature">>, <<"tideHigh">>, <<"tideLow">>,
        <<"tideHighTime">>, <<"tideLowTime">> >>

\* the fields that hold numbers come first
NumberFields == 1..6
TimeFields == 7..8
ScalarFields == 1..8

\* a summary whose single-value fields are v[1] .. v[8]
ScalarSummary(v, swell, tides) ==
    [k |-> "obj",
     date |-> DateStr(1),
     swell |-> swell,
     waveHeight |-> v[1],
     wind |-> [k |-> "obj", speed |-> v[2], direction |-> v[3]],
     waterTemperature |-> v[4],
     tideHigh |-> v[5],
     tideLow |-> v[6],
     tideHighTime |-> v[7],
     tideLowTime |-> v[8],
     tides |-> tides]

\* a persisted field is missing, 0 or another number; a time is missing or set
PersistedScalars ==
    {v \in [ScalarFields -> {Null, Num(0), PersistedValue, Stamp(1, 1)}] :
        /\ \A i \in NumberFields : v[i].k # "time"
        /\ \A i \in TimeFields : v[i].k \in {"null", "time"}}

\* the built fields: all set, none set, or every other one set
BuiltScalars ==
    {[i \in ScalarFields |->
        IF i % 2 \in odd THEN (IF i \in TimeFields THEN Stamp(1, 2) ELSE BuiltValue)
        ELSE Null] : odd \in SUBSET {0, 1}}

InitFields ==
    /\ pc = "input"
    /\ date = 1
    /\ hourly = Null
    /\ \/ snapshot = Null
       \/ snapshot = [k |-> "obj", date |-> DateStr(1), summary |-> Null]
       \/ \E v \in PersistedScalars :
             snapshot = [k |-> "obj", date |-> DateStr(1),
                         summary |-> ScalarSummary(v, Null, Null)]
    /\ \/ built = Null
       \/ \E v \in BuiltScalars :
             built = ScalarSummary(v, Null,
                        [k |-> "obj", highs |-> Arr(<<>>), lows |-> Arr(<<>>)])
    /\ degs = <<>>
    /\ NoRequest
    /\ NoOutputs
    /\ OthersIdle

NextFields == CallMergeSnapshotAndBuilt

SpecFields == InitFields /\ [][NextFields]_vars

\* the value an object holds at a path of one or two names
Reach(obj, path) ==
    IF Len(path) = 1 THEN Field(obj, path[1])
    ELSE Field(Field(obj, path[1]), path[2])

PersistedScalar(i) == Reach(Field(snapshot, "summary"), ScalarPaths[i])
BuiltScalar(i) == Reach(built, ScalarPaths[i])
MergedScalar(i) == Reach(merged, ScalarPaths[i])

\* C21: each of waveHeight, wind.speed, wind.direction, waterTemperature,
\* tideHigh, tideHighTime, tideLow and tideLowTime of the merge is the
\* persisted value when that is non-null (a persisted 0 is kept), otherwise
\* the built value, otherwise null, each field on its own.
C21_PerField ==
    MergeDone =>
        \A i \in ScalarFields :
            MergedScalar(i) =
                IF ~IsNull(PersistedScalar(i)) THEN PersistedScalar(i)
                ELSE IF ~IsNull(BuiltScalar(i)) THEN BuiltScalar(i)
                ELSE Null

\* a merge where one field keeps a persisted 0 over a built number, its
\* neighbour falls back to the built value and a third is null on both sides
C21_Witness ==
    /\ MergeDone
    /\ PersistedScalar(1) = Num(0) /\ BuiltScalar(1) = BuiltValue
    /\ MergedScalar(1) = Num(0)
    /\ IsNull(PersistedScalar(3)) /\ MergedScalar(3) = BuiltValue
    /\ IsNull(PersistedScalar(2)) /\ IsNull(BuiltScalar(2)) /\ IsNull(MergedScalar(2))
    /\ MergedScalar(4) = PersistedValue

---------------------------------------------------------------------------
(* Reconciliation: the single-value tide fields against the event lists *)

\* whether value and time are those of an event of the list that no other
\* event exceeds (sign 1) or undercuts (sign -1), or null for an empty list
ExtremeEvent(list, value, time, sign) ==
    IF Len(list) = 0 THEN IsNull(value) /\ IsNull(time)
    ELSE \E i \in 1..Len(list) :
            /\ \A j \in 1..Len(list) : sign * list[j].height <= sign * list[i].height
            /\ value = Num(list[i].height)
            /\ time = list[i].time

\* a summary whose tideHigh, tideHighTime, tideLow and tideLowTime are the
\* greatest high and the least low of its own event lists
TideFieldsAgree(s) ==
    /\ ExtremeEvent(EventsOf(Field(Field(s, "tides"), "highs")),
                 Field(s, "tideHigh"), Field(s, "tideHighTime"), 1)
    /\ ExtremeEvent(EventsOf(Field(Field(s, "tides"), "lows")),
                 Field(s, "tideLow"), Field(s, "tideLowTime"), -1)

\* C22: in every summary the merge returns, tideHigh and tideHighTime are the
\* height and time of the greatest event of the merged tides.highs, tideLow
\* and tideLowTime those of the least event of the merged tides.lows, null
\* when the list is empty; the built summary itself is taken to be one whose
\* fields agree with its lists.
C22_TideFields ==
    (MergeDone /\ TideFieldsAgree(built)) => TideFieldsAgree(merged)

\* the same when the persisted summary has no event lists at all, the shape
\* the snapshot route writes
C22_LegacyShape ==
    (MergeDone /\ TideFieldsAgree(built) /\ ~IsNull(Field(snapshot, "summary"))
        /\ IsNull(PersistedTideBundle))
    => TideFieldsAgree(merged)

\* the same when persisted and built summary each agree with their own lists
C22_BothAgree ==
    (MergeDone /\ TideFieldsAgree(built) /\ TideFieldsAgree(Field(snapshot, "summary")))
    => TideFieldsAgree(merged)

---------------------------------------------------------------------------
(* The history route: buildActualFromSnapshot *)

\* the hour of the "T12" stamp pickIndexForDate looks for
NoonHour == 12

\* pickIndexForDate with 1-based indices: the first noon stamp of the date,
\* else its first stamp, else 0 for null
pickIndexForDate(times, d) ==
    LET matches == {i \in 1..Len(times) : StartsWith(times[i], d)}
        noons == {i \in matches : times[i].hour = NoonHour}
        first(S) == CHOOSE i \in S : \A j \in S : i <= j
    IN  IF noons # {} THEN first(noons)
        ELSE IF matches # {} THEN first(matches)
        ELSE 0

\* the loop of tideExtremaForDate from index i
RECURSIVE ScanTideExtrema(_, _, _, _, _)
ScanTideExtrema(times, sea, d, i, acc) ==
    IF i > Len(times) THEN acc
    ELSE IF ~StartsWith(times[i], d) THEN ScanTideExtrema(times, sea, d, i + 1, acc)
    ELSE IF ~IsNumeric(At(sea, i)) THEN ScanTideExtrema(times, sea, d, i + 1, acc)
    ELSE LET vv == At(sea, i)
             hi == IsNull(acc.tideHigh) \/ Greater(vv, acc.tideHigh)
             lo == IsNull(acc.tideLow) \/ Greater(acc.tideLow, vv)
         IN  ScanTideExtrema(times, sea, d, i + 1,
                [tideHigh     |-> IF hi THEN vv ELSE acc.tideHigh,
                 tideHighTime |-> IF hi THEN times[i] ELSE acc.tideHighTime,
                 tideLow      |-> IF lo THEN vv ELSE acc.tideLow,
                 tideLowTime  |-> IF lo THEN times[i] ELSE acc.tideLowTime])

tideExtremaForDate(h, d) ==
    ScanTideExtrema(IF IsArray(h.time) THEN h.time.items ELSE <<>>,
                    IF IsArray(h.sea_level_height_msl) THEN h.sea_level_height_msl.items
                    ELSE <<>>,
                    d, 1,
                    [tideHigh |-> Null, tideHighTime |-> Null,
                     tideLow |-> Null, tideLowTime |-> Null])

buildFromHourly(h, d) ==
    IF IsNull(h) THEN Null
    ELSE IF ~IsArray(h.time) THEN Null
    ELSE LET idx == pickIndexForDate(h.time.items, d)
             t == tideExtremaForDate(h, d)
             \* get(arr): arr[idx] as a number, null past the end
             get(arr) ==
                IF IsArray(arr) /\ Len(arr.items) >= idx
                THEN IF IsNull(arr.items[idx]) THEN Null ELSE toNumber(arr.items[idx])
                ELSE Null
         IN  IF idx = 0 THEN Null
             ELSE [k |-> "obj",
                   swellHeight |-> get(h.swell_wave_height),
                   swellPeriod |-> get(h.swell_wave_period),
                   swellDirection |-> get(h.swell_wave_direction),
                   waveHeight |-> get(h.wave_height),
                   windSpeed |-> get(h.wind_speed_10m),
                   windDirection |-> get(h.wind_direction_10m),
                   waterTemperature |-> get(h.sea_surface_temperature),
                   tideHigh |-> t.tideHigh,
                   tideHighTime |-> t.tideHighTime,
                   tideLow |-> t.tideLow,
                   tideLowTime |-> t.tideLowTime]

\* the fields of the day values the persisted summary can fill, with the
\* summary path of each
ActualPaths ==
    [swellHeight |-> <<"swell", "primary", "height">>,
     swellPeriod |-> <<"swell", "primary", "period">>,
     swellDirection |-> <<"swell", "primary", "direction">>,
     windSpeed |-> <<"wind", "speed">>,
     windDirection |-> <<"wind", "direction">>,
     waterTemperature |-> <<"waterTemperature">>,
     tideHigh |-> <<"tideHigh">>,
     tideHighTime |-> <<"tideHighTime">>,
     tideLow |-> <<"tideLow">>,
     tideLowTime |-> <<"tideLowTime">>]

buildActualFromSnapshot(snap, d) ==
    IF IsNull(snap) THEN Null
    ELSE
    LET s(f) == walkPath(snap.summary, ActualPaths[f], 1)
        hourlyBuilt == buildFromHourly(snap.hourly, d)
        b(f) == IF IsNull(hourlyBuilt) THEN Null ELSE hourlyBuilt[f]
        hasAnySummary ==
            \E f \in {"swellHeight", "swellPeriod", "swellDirection", "windSpeed",
                      "windDirection", "waterTemperature", "tideHigh", "tideLow"} :
                ~IsNull(s(f))
    IN  IF ~hasAnySummary THEN hourlyBuilt
        ELSE [k |-> "obj",
              swellHeight |-> Coalesce(s("swellHeight"), b("swellHeight")),
              swellPeriod |-> Coalesce(s("swellPeriod"), b("swellPeriod")),
              swellDirection |-> Coalesce(s("swellDirection"), b("swellDirection")),
              waveHeight |-> b("waveHeight"),
              windSpeed |-> Coalesce(s("windSpeed"), b("windSpeed")),
              windDirection |-> Coalesce(s("windDirection"), b("windDirection")),
              waterTemperature |-> Coalesce(s("waterTemperature"), b("waterTemperature")),
              tideHigh |-> Coalesce(s("tideHigh"), b("tideHigh")),
              tideHighTime |-> Coalesce(s("tideHighTime"), b("tideHighTime")),
              tideLow |-> Coalesce(s("tideLow"), b("tideLow")),
              tideLowTime |-> Coalesce(s("tideLowTime"), b("tideLowTime"))]

CallBuildActualFromSnapshot ==
    /\ pc = "input"
    /\ actual' = buildActualFromSnapshot(snapshot, date)
    /\ pc' = "buildActualFromSnapshot"
    /\ UNCHANGED <<date, hourly, tide, daily, snapshot, built, merged, degs, dir,
                 nums, med, marine, forecast, response, given, summaries,
                 feedbackVars, seedVars>>

\* the time arrays of a stored snapshot: the date with a noon stamp, the
\* date without one, and another date only
HistoryTimes ==
    {<<Stamp(1, 0), Stamp(1, NoonHour)>>, <<Stamp(1, 0), Stamp(2, 0)>>,
     <<Stamp(2, 0), Stamp(2, NoonHour)>>}

\* a stored hourly bundle: the swell, the wind and water, and the sea-level
\* channels each present or missing
HistoryBundle(t, swell, wind, sea) ==
    [k |-> "obj", time |-> Arr(t),
     swell_wave_height |-> swell, swell_wave_period |-> swell,
     swell_wave_direction |-> swell, wave_height |-> swell,
     wind_speed_10m |-> wind, wind_direction_10m |-> wind,
     sea_surface_temperature |-> wind,
     sea_level_height_msl |-> sea]

HistoryHourlies ==
    {Null} \cup
    {HistoryBundle(t, sw, wi, se) :
        t \in HistoryTimes,
        sw \in {Null, Arr(<<Num(20), Num(40)>>)},
        wi \in {Null, Arr(<<Num(60)>>)},
        se \in {Null, Arr(<<Num(-30), Num(50)>>)}}

\* a persisted summary with every field set or null on its own; num is the
\* number a set field holds
HistorySummary(set, num) ==
    LET n(f) == IF f \in set THEN num ELSE Null
        t(f) == IF f \in set THEN Stamp(1, 3) ELSE Null
    IN  [k |-> "obj",
         swell |-> [k |-> "obj",
                    primary |-> Tier(n("swellHeight"), n("swellPeriod"), n("swellDirection"))],
         wind |-> [k |-> "obj", speed |-> n("windSpeed"), direction |-> n("windDirection")],
         waterTemperature |-> n("waterTemperature"),
         tideHigh |-> n("tideHigh"),
         tideHighTime |-> t("tideHighTime"),
         tideLow |-> n("tideLow"),
         tideLowTime |-> t("tideLowTime")]

InitHistory ==
    /\ pc = "input"
    /\ date = 1
    /\ hourly = Null
    /\ \/ snapshot = Null
       \/ \E h \in HistoryHourlies :
             \/ snapshot = [k |-> "obj", date |-> DateStr(1), hourly |-> h, summary |-> Null]
             \/ \E set \in SUBSET DOMAIN ActualPaths, num \in {Num(0), PersistedValue} :
                   snapshot = [k |-> "obj", date |-> DateStr(1), hourly |-> h,
                               summary |-> HistorySummary(set, num)]
    /\ built = Null
    /\ degs = <<>>
    /\ NoRequest
    /\ NoOutputs
    /\ OthersIdle

NextHistory == CallBuildActualFromSnapshot

SpecHistory == InitHistory /\ [][NextHistory]_vars

ActualDone == pc = "buildActualFromSnapshot"

\* the persisted value of a field of the day values, and the value built
\* from the snapshot's hourly data
PersistedActual(f) ==
    LET p == ActualPaths[f]
        s == Field(snapshot, "summary")
    IN  IF Len(p) = 1 THEN Field(s, p[1])
        ELSE IF Len(p) = 2 THEN Field(Field(s, p[1]), p[2])
        ELSE Field(Field(Field(s, p[1]), p[2]), p[3])
HourlyActual(f) == Field(buildFromHourly(snapshot.hourly, date), f)

\* C23: every field of the day values buildActualFromSnapshot returns is the
\* persisted summary value when that is non-null, otherwise the value built
\* from the snapshot's hourly data, otherwise null, field by field.
C23_PerField ==
    (ActualDone /\ ~IsNull(snapshot)) =>
        \A f \in DOMAIN ActualPaths :
            Field(actual, f) = Coalesce(PersistedActual(f), HourlyActual(f))

\* the same for summaries that hold a value other than a tide time
C23_WithAnyValue ==
    (ActualDone /\ ~IsNull(snapshot)
        /\ \E f \in DOMAIN ActualPaths \ {"tideHighTime", "tideLowTime"} :
              ~IsNull(PersistedActual(f)))
    => \A f \in DOMAIN ActualPaths :
            Field(actual, f) = Coalesce(PersistedActual(f), HourlyActual(f))

---------------------------------------------------------------------------
(* Tide detection: rounding, order and disjointness of what is returned *)

\* a height with at most 3 decimals: a whole number of 1e-3 m, 10 units
ThreeDecimals(x) == x % 10 = 0

\* every height of a tide result has at most 3 decimals
AllThreeDecimals(t) ==
    /\ \A a \in 1..Len(t.highs) : ThreeDecimals(t.highs[a].height)
    /\ \A a \in 1..Len(t.lows) : ThreeDecimals(t.lows[a].height)
    /\ ~IsNull(t.tideHigh) => ThreeDecimals(t.tideHigh.v)
    /\ ~IsNull(t.tideLow) => ThreeDecimals(t.tideLow.v)

DayDone == pc = "tideEventsForDay"

\* C24: every height tide detection returns, the event heights of highs and
\* lows as well as tideHigh and tideLow, is rounded to 3 decimals, on the
\* normal and on the fallback path, in tideEventsForDate and tideEventsForDay.
C24_Rounded ==
    (TideDone \/ DayDone) => AllThreeDecimals(tide)

\* the same for tideEventsForDate alone, whose two paths both end in
\* buildTideSummary
C24_DateRounded ==
    TideDone => AllThreeDecimals(tide)

\* the same for the single-value fields of tideEventsForDay
C24_DayFieldsRounded ==
    DayDone =>
        /\ ~IsNull(tide.tideHigh) => ThreeDecimals(tide.tideHigh.v)
        /\ ~IsNull(tide.tideLow) => ThreeDecimals(tide.tideLow.v)

---------------------------------------------------------------------------
(* Several dates built from one bundle, in any order *)

\* the dates built from the bundle
FrameDates == {0, 1, 2}

\* a date not built yet
Unbuilt == [k |-> "unbuilt", v |-> 0]

\* arrays handed to median, none of them in ascending order
FrameNums == {<<Num(4), Num(2)>>, <<Num(18), Num(2), Num(4)>>}

\* the bundles: days 0, 1 and 2 with one channel varied
FrameBundles ==
    {Bundle(Arr(PaddedTimes), slot, Arr(a), Arr([i \in 1..Len(PaddedTimes) |-> Num(200)])) :
        slot \in {"wave_height", "sea_level_height_msl"},
        a \in [1..Len(PaddedTimes) -> BuildSamples]}

InitFrame ==
    /\ pc = "input"
    /\ date = 0
    /\ hourly \in FrameBundles
    /\ given = hourly
    /\ summaries = [d \in FrameDates |-> Unbuilt]
    /\ actual = Null
    /\ FeedbackIdle
    /\ SeedIdle
    /\ snapshot = Null
    /\ built = Null
    /\ degs = <<>>
    /\ nums \in FrameNums
    /\ marine = Null
    /\ forecast = Null
    /\ NoOutputs

\* one more buildDailyFromHourly(d, hourly) on the caller's bundle, for a
\* date not built yet
BuildForDate(d) ==
    /\ summaries[d] = Unbuilt
    /\ date' = d
    /\ daily' = buildDailyFromHourly(d, hourly)
    /\ summaries' = [summaries EXCEPT ![d] = buildDailyFromHourly(d, hourly)]
    /\ hourly' = hourlyAfterBuild(d, hourly)
    /\ pc' = "buildDailyFromHourly"
    /\ UNCHANGED <<tide, snapshot, built, merged, degs, dir, nums, med, marine,
                   forecast, response, actual, given, feedbackVars, seedVars>>

NextFrame ==
    \/ \E d \in FrameDates : BuildForDate(d)
    \/ CallMedian

SpecFrame == InitFrame /\ [][NextFrame]_vars

OrderSamples == {Null} \cup {Num(h) : h \in {0, 10, 20, 30}}

\* a padded series of the greatest length for date 1
InitOrder ==
    /\ pc = "input"
    /\ date = 1
    /\ \E hs \in [1..MaxLen -> OrderSamples] :
          hourly = SeaLevelBundle(TimesFrom(HoursPerDay - 1, MaxLen), hs)
    /\ snapshot = Null
    /\ built = Null
    /\ degs = <<>>
    /\ NoRequest
    /\ NoOutputs
    /\ OthersIdle

NextOrder == CallTideEventsForDate

SpecOrder == InitOrder /\ [][NextOrder]_vars

\* C26: whenever tideEventsForDate returns both a tideHigh and a tideLow,
\* tideHigh is at least tideLow.
C26_HighAboveLow ==
    (TideDone /\ ~IsNull(tide.tideHigh) /\ ~IsNull(tide.tideLow))
    => tide.tideHigh.v >= tide.tideLow.v

\* the same on the fallback path, where both are extremes of the whole day
C26_FallbackOrdered ==
    (TideDone /\ (LocalMaxima = {} \/ LocalMinima = {})
        /\ ~IsNull(tide.tideHigh) /\ ~IsNull(tide.tideLow))
    => tide.tideHigh.v >= tide.tideLow.v

\* the same for a day whose samples all exist and change from hour to hour
C26_NoGapNoPlateau ==
    (TideDone /\ ~IsNull(tide.tideHigh) /\ ~IsNull(tide.tideLow)
        /\ (\A i \in 1..Len(inLevels) : ~IsNull(inLevels[i]))
        /\ (\A j \in 1..(Len(inLevels) - 1) : inLevels[j] # inLevels[j + 1]))
    => tide.tideHigh.v >= tide.tideLow.v

\* C27: no timestamp is both among the highs and among the lows that
\* tideEventsForDate returns.
C27_Disjoint ==
    TideDone =>
        \A a \in 1..Len(tide.highs), b \in 1..Len(tide.lows) :
            tide.highs[a].time # tide.lows[b].time

\* the same on the normal path, where a sample cannot be above and below
\* both of its neighbours
C27_TurningPointsDisjoint ==
    (TideDone /\ LocalMaxima # {} /\ LocalMinima # {}) =>
        \A a \in 1..Len(tide.highs), b \in 1..Len(tide.lows) :
            tide.highs[a].time # tide.lows[b].time

---------------------------------------------------------------------------
(* The feedback route: POST /api/feedback for one date and location *)

SizeOptions == {"tiny", "small", "medium", "head_high", "overhead", "2x_overhead"}
QualityOptions == {"poor", "fair", "good", "epic"}

\* a body field that is missing, and the null of sizeValue / qualityValue
Undefined == "undefined"
NoValue == "null"

emptyAggregate ==
    [totalCount |-> 0,
     size |-> [s \in SizeOptions |-> 0],
     quality |-> [q \in QualityOptions |-> 0]]

\* faulty variant: every accepted POST counts as a new contributor
applyFeedbackAlwaysNew(agg, prev, sizeValue, qualityValue) ==
    LET decrement(m, key) ==
            IF key \in DOMAIN m
            THEN [m EXCEPT ![key] = IF @ - 1 > 0 THEN @ - 1 ELSE 0]
            ELSE m
        increment(m, key) == IF key \in DOMAIN m THEN [m EXCEPT ![key] = @ + 1] ELSE m
        moved == IF prev # Null
                 THEN [agg EXCEPT !.size = decrement(@, prev.size),
                                  !.quality = decrement(@, prev.quality),
                                  !.totalCount = @ + 1]
                 ELSE [agg EXCEPT !.totalCount = @ + 1]
    IN  [moved EXCEPT !.size = increment(@, sizeValue),
                      !.quality = increment(@, qualityValue)]

\* the aggregate the handler writes, from the aggregate and the user's
\* previous record it read
applyFeedback(agg, prev, sizeValue, qualityValue) ==
    LET \* if (key && m[key] !== undefined) m[key] = Math.max(m[key] - 1, 0)
        decrement(m, key) ==
            IF key \in DOMAIN m
            THEN [m EXCEPT ![key] = IF @ - 1 > 0 THEN @ - 1 ELSE 0]
            ELSE m
        \* if (key && m[key] !== undefined) m[key] += 1
        increment(m, key) == IF key \in DOMAIN m THEN [m EXCEPT ![key] = @ + 1] ELSE m
        moved == IF prev # Null
                 THEN [agg EXCEPT !.size = decrement(@, prev.size),
                                  !.quality = decrement(@, prev.quality)]
                 ELSE [agg EXCEPT !.totalCount = @ + 1]
    IN  [moved EXCEPT !.size = increment(@, sizeValue),
                      !.quality = increment(@, qualityValue)]

\* the users, the most POSTs accepted in a run, and the size and quality a
\* body carries: missing, two valid options, an invalid one
Users == {"u1", "u2"}
MaxPosts == 3
PostedSizes == {Undefined, "small", "overhead", "giant"}
PostedQualities == {Undefined, "good", "bad"}

\* the handler is past its validation and has read both keys
InFlight(u) == posts[u] # Null
NoneInFlight == \A u \in Users : ~InFlight(u)
Accepted == postCount["u1"] + postCount["u2"]

\* the handler up to and including `await redis.mget(aggKey, userKey)`
BeginPost(u, size, quality) ==
    /\ ~InFlight(u)
    /\ IF \/ (size = Undefined /\ quality = Undefined)
          \/ (size # Undefined /\ size \notin SizeOptions)
          \/ (quality # Undefined /\ quality \notin QualityOptions)
       THEN /\ response' = [status |-> 400]
            /\ UNCHANGED feedbackVars
       ELSE /\ Accepted < MaxPosts
            /\ posts' = [posts EXCEPT ![u] =
                            [size |-> IF size = Undefined THEN NoValue ELSE size,
                             quality |-> IF quality = Undefined THEN NoValue ELSE quality,
                             rawAgg |-> aggStore,
                             rawUser |-> userStore[u]]]
            /\ postCount' = [postCount EXCEPT ![u] = @ + 1]
            /\ UNCHANGED <<aggStore, userStore, response>>
    /\ UNCHANGED <<reductionVars, frameVars, seedVars>>

\* the handler from there on: the new aggregate and `await redis.mset(...)`
FinishPost(u) ==
    /\ InFlight(u)
    /\ LET r == posts[u]
           agg == applyFeedback(IF r.rawAgg = Null THEN emptyAggregate ELSE r.rawAgg,
                                r.rawUser, r.size, r.quality)
       IN  /\ aggStore' = agg
           /\ userStore' = [userStore EXCEPT ![u] = [size |-> r.size, quality |-> r.quality]]
           /\ response' = [status |-> 200, body |-> agg]
    /\ posts' = [posts EXCEPT ![u] = Null]
    /\ UNCHANGED <<postCount, reductionVars, frameVars, seedVars>>

InitFeedback ==
    /\ pc = "input"
    /\ date = 1
    /\ hourly = Null
    /\ snapshot = Null
    /\ built = Null
    /\ degs = <<>>
    /\ NoRequest
    /\ NoOutputs
    /\ actual = Null /\ given = Null /\ summaries = <<>>
    /\ SeedIdle
    /\ aggStore = Null
    /\ userStore = [u \in Users |-> Null]
    /\ posts = [u \in Users |-> Null]
    /\ postCount = [u \in Users |-> 0]

\* POSTs that may overlap each other
NextFeedback ==
    \/ \E u \in Users, size \in PostedSizes, quality \in PostedQualities :
          BeginPost(u, size, quality)
    \/ \E u \in Users : FinishPost(u)

SpecFeedback == InitFeedback /\ [][NextFeedback]_vars

\* POSTs one after the other: a handler starts only when none is in flight
NextSerial ==
    \/ \E u \in Users, size \in PostedSizes, quality \in PostedQualities :
          NoneInFlight /\ BeginPost(u, size, quality)
    \/ \E u \in Users : FinishPost(u)

SpecSerial == InitFeedback /\ [][NextSerial]_vars

\* the stored aggregate counts the stored records: totalCount the users that
\* have one, every size and quality counter the users whose record holds it
StoredAggregate == IF aggStore = Null THEN emptyAggregate ELSE aggStore
Voters == {u \in Users : userStore[u] # Null}
AggregateAgrees ==
    /\ StoredAggregate.totalCount = Cardinality(Voters)
    /\ \A s \in SizeOptions :
          StoredAggregate.size[s] = Cardinality({u \in Voters : userStore[u].size = s})
    /\ \A q \in QualityOptions :
          StoredAggregate.quality[q] = Cardinality({u \in Voters : userStore[u].quality = q})

\* C28: after any sequence of POSTs that do not overlap the stored aggregate
\* agrees with the stored records, and a user who posts again moves the
\* vote without being counted twice.
C28_Agrees ==
    /\ AggregateAgrees
    /\ \A u \in Users : (postCount[u] > 0 /\ ~InFlight(u)) => u \in Voters

\* u1 has posted twice, u2 once, and two contributors are counted
C28_Witness ==
    /\ NoneInFlight
    /\ postCount["u1"] = 2 /\ postCount["u2"] = 1
    /\ StoredAggregate.totalCount = 2
    /\ userStore["u1"] = [size |-> "overhead", quality |-> NoValue]
    /\ StoredAggregate.size["overhead"] = 1 /\ StoredAggregate.size["small"] = 1

\* C29: when POSTs of different users overlap, every vote and every
\* totalCount increment is in the stored aggregate once all have completed.
C29_NoLostVote ==
    NoneInFlight => AggregateAgrees

---------------------------------------------------------------------------
(* The seed script: scripts/seed_snapshots.mjs *)

\* the most workers (--concurrency) and the most queued jobs
MaxWorkers == 3
MaxJobs == 3

\* where a worker stands: at the head of its loop, awaiting the answer to
\* the POST of a job, or returned
AtLoop == [at |-> "loop", job |-> 0]
Awaiting(j) == [at |-> "await", job |-> j]
Finished == [at |-> "done", job |-> 0]

\* main: the queue holds jobs 1..n; with no job main returns before any
\* worker is made, otherwise `concurrency` workers share the queue
InitSeed ==
    /\ pc = "input"
    /\ date = 1
    /\ hourly = Null
    /\ snapshot = Null
    /\ built = Null
    /\ degs = <<>>
    /\ NoRequest
    /\ NoOutputs
    /\ actual = Null /\ given = Null /\ summaries = <<>>
    /\ FeedbackIdle
    /\ \E n \in 0..MaxJobs, concurrency \in 1..MaxWorkers :
          /\ queue = [j \in 1..n |-> j]
          /\ sent = [j \in 1..n |-> 0]
          /\ workers = IF n = 0 THEN <<>> ELSE [w \in 1..concurrency |-> AtLoop]
    /\ results = [ok |-> 0, fail |-> 0]

\* faulty variant: a worker returns when its job has failed
WorkerSettleStopsOnFail(w, ok) ==
    /\ workers[w].at = "await"
    /\ results' = IF ok THEN [results EXCEPT !.ok = @ + 1]
                  ELSE [results EXCEPT !.fail = @ + 1]
    /\ workers' = [workers EXCEPT ![w] = IF ok THEN AtLoop ELSE Finished]
    /\ UNCHANGED <<queue, sent, response, reductionVars, frameVars, feedbackVars>>

\* `while (queue.length)`, `queue.shift()` and the call of postSnapshot, which
\* run without an await in between
WorkerTake(w) ==
    /\ workers[w].at = "loop"
    /\ IF Len(queue) = 0
       THEN /\ workers' = [workers EXCEPT ![w] = Finished]
            /\ UNCHANGED <<queue, sent>>
       ELSE /\ workers' = [workers EXCEPT ![w] = Awaiting(Head(queue))]
            /\ queue' = Tail(queue)
            /\ sent' = [sent EXCEPT ![Head(queue)] = @ + 1]
    /\ UNCHANGED <<results, response, reductionVars, frameVars, feedbackVars>>

\* the awaited postSnapshot resolves (ok) or throws: results.ok++ or
\* results.fail++ in the catch, then the loop goes on
WorkerSettle(w, ok) ==
    /\ workers[w].at = "await"
    /\ results' = IF ok THEN [results EXCEPT !.ok = @ + 1]
                  ELSE [results EXCEPT !.fail = @ + 1]
    /\ workers' = [workers EXCEPT ![w] = AtLoop]
    /\ UNCHANGED <<queue, sent, response, reductionVars, frameVars, feedbackVars>>

NextSeed ==
    \/ \E w \in DOMAIN workers : WorkerTake(w)
    \/ \E w \in DOMAIN workers, ok \in BOOLEAN : WorkerSettle(w, ok)

\* every request is answered in the end, and a worker that can go on does
SpecSeed ==
    /\ InitSeed
    /\ [][NextSeed]_vars
    /\ \A w \in 1..MaxWorkers :
          /\ WF_vars(w \in DOMAIN workers /\ WorkerTake(w))
          /\ WF_vars(w \in DOMAIN workers /\ \E ok \in BOOLEAN : WorkerSettle(w, ok))

AllReturned == \A w \in DOMAIN workers : workers[w] = Finished
Jobs == DOMAIN sent

\* no job is posted twice, and once every worker has returned every job has
\* been posted once and counted once, as ok or as fail
SeedCounts ==
    /\ \A j \in Jobs : sent[j] <= 1
    /\ AllReturned =>
          /\ \A j \in Jobs : sent[j] = 1
          /\ results.ok + results.fail = Cardinality(Jobs)

\* C30: with any number of workers on one queue every queued job is posted
\* exactly once, all workers return in the end, and then results.ok +
\* results.fail is the number of queued jobs; a failed job does not stop its
\* worker.
C30_Seed == []SeedCounts /\ <>AllReturned

\* three workers have returned after three jobs of which some failed
C30_Witness ==
    /\ Len(workers) = 3 /\ AllReturned
    /\ Cardinality(Jobs) = 3
    /\ results.fail = 2 /\ results.ok = 1

====
